---- MODULE Spec2Model ----
(***************************************************************************)
(* A model of the in-memory pub/sub broker: the Hub goroutine (Hub.Run),   *)
(* the per-connection ReadPump / WritePump goroutines, the bounded          *)
(* outbound channel with its backpressure handling, and the per-topic ring  *)
(* buffer served by GetRecentMessages.                                      *)
(*                                                                           *)
(* Go channels are modelled as sequences (buffered c.send) or as a          *)
(* rendezvous between the sender's position and the Hub's select            *)
(* (unbuffered hub channels).  A goroutine's position is a pc variable.     *)
(***************************************************************************)
EXTENDS Integers, Sequences, FiniteSets, TLC

\* ------------------------------------------------------------------ bounds
\* capacity of Client.send and Client.maxQueueSize (100 in the source,
\* client.go:38 and client.go:41), scaled down
QueueCap == 3

\* length of Topic.RecentMessages and the modulus of RingHead (100 in the
\* source, hub.go:343, hub.go:242, hub.go:296), scaled down
RingCap == 2

\* number of publish requests the connections send in one behaviour
MaxMsgs == 4

\* c.queueSize is followed up to this value: sendWithBackpressure is not
\* called once the counter has reached it
MaxCount == 4

\* largest last_n a subscribe request carries
MaxLastN == 3

\* number of CreateTopic / DeleteTopic calls made in one behaviour
MaxAdmin == 3

\* gracefulShutdown: the timeout (5 s) in ticker periods (100 ms), scaled down
DrainTicks == 3

Clients == {"c1", "c2"}

TopicNames == {"t1", "t2"}

\* ------------------------------------------------------------ message.go
\* PubSubMessage{Topic, Message{ID}}; the payload is opaque and left out
PubSubMessage(t, id) == [Topic |-> t, ID |-> id]

\* a nil *PubSubMessage (an unwritten ring slot)
NilMsg == [Topic |-> "", ID |-> 0]

\* ServerMessage as marshalled by the create...MessageBytes helpers
ServerMessage(type, topic, id, code) ==
    [type |-> type, topic |-> topic, id |-> id, code |-> code]

createEventMessageBytes(message) ==
    ServerMessage("event", message.Topic, message.ID, "")

createAckMessageBytes(topic) == ServerMessage("ack", topic, 0, "")

createErrorMessageBytes(errorCode) == ServerMessage("error", "", 0, errorCode)

createPongMessageBytes == ServerMessage("pong", "", 0, "")

\* the zero value a receive on a closed, empty channel yields
NilFrame == ServerMessage("", "", 0, "")

\* Go's % truncates towards zero
GoMod(a, b) == IF a >= 0 THEN a % b ELSE -((-a) % b)

VARIABLES
    \* Hub
    topics,         \* h.topics: name -> Topic
    subscriptions,  \* h.subscriptions: name -> set of clients
    clients,        \* h.clients
    stats,          \* h.stats
    shuttingDown,   \* h.shuttingDown
    hpc,            \* position of the Hub.Run goroutine
    hmsg,           \* publishMessage: the message being fanned out
    hfan,           \* publishMessage: clientList entries not yet visited
    \* Client
    send,           \* c.send, the buffered channel's contents
    sendClosed,     \* close(c.send) has been called
    queueSize,      \* c.queueSize
    slowConsumer,   \* c.slowConsumer
    csubs,          \* c.subscriptions
    connClosed,     \* c.conn.Close() has been called
    timer,          \* the goroutine of sendSlowConsumerError is sleeping
    \* ReadPump goroutine
    rpc,            \* position of the reader (and of the accept path before it)
    rreq,           \* the request being handled
    rreplay,        \* handleSubscribe: recentMessages not yet sent
    dpc,            \* position inside sendWithBackpressure ("none": not in it)
    dframe,         \* sendWithBackpressure: data
    dtmp,           \* handleQueueOverflow: the value of <-c.send
    \* WritePump goroutine
    wpc,
    \* the process
    panicked,       \* a goroutine panicked (send on a closed channel)
    nextId,         \* the next message id a publisher assigns
    \* history (not program state)
    appended,       \* per topic, the messages stored in the ring since creation
    fanned,         \* per client, the messages publishMessage tried to send it
    dequeued,       \* per client, WritePump has taken a frame from c.send
    dcalls,         \* per client, calls of sendWithBackpressure (saturating)
    dpre,           \* sendWithBackpressure found the queue full: queue and queueSize then
    contended,      \* another goroutine touched c.send during the current overflow handling
    slowErrs,       \* per client, SLOW_CONSUMER frames enqueued
    \* Shutdown and gracefulShutdown
    spc,            \* position of the caller of Hub.Shutdown
    elapsed,        \* gracefulShutdown: ticker periods since its timers were started
    tickReady,      \* gracefulShutdown: ticker.C holds a tick
    drainIdle,      \* history: every live client had queueSize 0 when gracefulShutdown began
    \* history (not program state)
    adminLog,       \* the CreateTopic / DeleteTopic calls made, with their results
    published,      \* per topic, the messages publishMessage was given while the topic existed
    replayed        \* per client, handleSubscribe's replay: publishes before it, events sent

hubVars == <<topics, subscriptions, clients, stats, shuttingDown, hpc, hmsg, hfan>>

clientVars == <<send, sendClosed, queueSize, slowConsumer, csubs, connClosed, timer>>

readerVars == <<rpc, rreq, rreplay, dpc, dframe, dtmp>>

histVars == <<appended, fanned, dequeued, dcalls, dpre, contended, slowErrs>>

moreVars == <<spc, elapsed, tickReady, drainIdle, adminLog, published, replayed>>

vars == <<hubVars, clientVars, readerVars, wpc, panicked, nextId, histVars, moreVars>>

NoReq == [type |-> "", topic |-> "", lastN |-> 0, msg |-> NilMsg]

NoPre == [q |-> <<>>, n |-> 0]

NoReplay == [base |-> 0, msgs |-> <<>>]

\* ------------------------------------------------------------------ hub.go
\* NewHub's state, and CreateTopic's Topic literal
NewTopic ==
    [MessageCount |-> 0, SubscriberCount |-> 0,
     RecentMessages |-> [i \in 0..(RingCap - 1) |-> NilMsg],
     RingHead |-> 0, RingSize |-> 0]

\* publishMessage, the update of the topic under "if topic, exists := ...",
\* one definition per assignment: the hub holds h.mu.RLock() only, which does
\* not keep GetRecentMessages (also under RLock) out, so a reader can run
\* between any two of them
RingSlot(topic, message) ==
    [topic EXCEPT !.MessageCount = @ + 1,
                  !.RecentMessages[topic.RingHead] = message]

RingAdvance(topic) == [topic EXCEPT !.RingHead = GoMod(topic.RingHead + 1, RingCap)]

RingGrow(topic) == [topic EXCEPT !.RingSize = IF @ < RingCap THEN @ + 1 ELSE @]

\* GetRecentMessages: lastN after the clamp
RecentCount(topic, lastN) ==
    IF lastN <= 0 \/ lastN > topic.RingSize THEN topic.RingSize ELSE lastN

\* the ring position read in iteration i as it would be with "pos := start % 100"
\* (C39 must tell the two apart)
RecentPosFixed(topic, n, i) ==
    GoMod(GoMod(topic.RingHead - n + RingCap, RingCap), RingCap)

\* GetRecentMessages: the ring position read in iteration i (0-based) of the loop
RecentPos(topic, n, i) ==
    LET start == GoMod(topic.RingHead - n + RingCap, RingCap)
    IN  GoMod(start + i, RingCap)

\* GetRecentMessages on a given registry (the reads of one call taken together)
RecentOf(reg, topicName, lastN) ==
    IF topicName \in DOMAIN reg
    THEN LET topic == reg[topicName]
             n == RecentCount(topic, lastN)
         IN  IF n > 0
             THEN SelectSeq([i \in 1..n |-> topic.RecentMessages[RecentPos(topic, n, i - 1)]],
                            LAMBDA m : m # NilMsg)
             ELSE <<>>
    ELSE <<>>

GetRecentMessages(topicName, lastN) == RecentOf(topics, topicName, lastN)

\* Hub.GetStats (Uptime left out)
GetStats ==
    [TotalClients  |-> stats.TotalClients,
     TotalTopics   |-> stats.TotalTopics,
     TotalMessages |-> stats.TotalMessages,
     ActiveTopics  |-> Cardinality(DOMAIN subscriptions)]

\* removal of a client from a subscriber map, with the pruning of empty sets
\* (unregisterClient's loop)
DropClient(subs, c) ==
    LET keep == {t \in DOMAIN subs : subs[t] \ {c} # {}}
    IN  [t \in keep |-> subs[t] \ {c}]

HubIdle == hpc = "select" /\ ~panicked

\* Hub.Run case client := <-h.Register as it would be if registerClient did not
\* test h.shuttingDown (C16 must tell the two apart)
HubRegisterAlways(c) ==
    /\ HubIdle
    /\ rpc[c] = "reg_submit"
    /\ clients' = clients \cup {c}
    /\ stats' = [stats EXCEPT !.TotalClients = Cardinality(clients \cup {c})]
    /\ rpc' = [rpc EXCEPT ![c] = "read"]
    /\ wpc' = [wpc EXCEPT ![c] = "wait"]
    /\ UNCHANGED <<topics, subscriptions, shuttingDown, hpc, hmsg, hfan>>
    /\ UNCHANGED <<send, sendClosed, queueSize, slowConsumer, csubs, connClosed, timer>>
    /\ UNCHANGED <<rreq, rreplay, dpc, dframe, dtmp, panicked, nextId, histVars>>
    /\ UNCHANGED moreVars

\* Hub.Run case client := <-h.Register as it would be if registerClient left
\* the connection of a refused client open (C38 must tell the two apart)
HubRegisterKeepsOpen(c) ==
    /\ HubIdle
    /\ rpc[c] = "reg_submit"
    /\ IF shuttingDown
       THEN UNCHANGED <<clients, stats>>
       ELSE /\ clients' = clients \cup {c}
            /\ stats' = [stats EXCEPT !.TotalClients = Cardinality(clients \cup {c})]
    /\ rpc' = [rpc EXCEPT ![c] = "read"]
    /\ wpc' = [wpc EXCEPT ![c] = "wait"]
    /\ UNCHANGED <<topics, subscriptions, shuttingDown, hpc, hmsg, hfan>>
    /\ UNCHANGED <<send, sendClosed, queueSize, slowConsumer, csubs, connClosed, timer>>
    /\ UNCHANGED <<rreq, rreplay, dpc, dframe, dtmp, panicked, nextId, histVars>>
    /\ UNCHANGED moreVars

\* Hub.Run case client := <-h.Register, with HandleWebSocket's start of the pumps
HubRegister(c) ==
    /\ HubIdle
    /\ rpc[c] = "reg_submit"
    /\ IF shuttingDown
       THEN /\ connClosed' = [connClosed EXCEPT ![c] = TRUE]
            /\ UNCHANGED <<clients, stats>>
       ELSE /\ clients' = clients \cup {c}
            /\ stats' = [stats EXCEPT !.TotalClients = Cardinality(clients \cup {c})]
            /\ UNCHANGED connClosed
    /\ rpc' = [rpc EXCEPT ![c] = "read"]
    /\ wpc' = [wpc EXCEPT ![c] = "wait"]
    /\ UNCHANGED <<topics, subscriptions, shuttingDown, hpc, hmsg, hfan>>
    /\ UNCHANGED <<send, sendClosed, queueSize, slowConsumer, csubs, timer>>
    /\ UNCHANGED <<rreq, rreplay, dpc, dframe, dtmp, panicked, nextId, histVars>>
    /\ UNCHANGED moreVars

\* Hub.Run case client := <-h.unregister as it would be if unregisterClient left
\* the client in the subscriber sets (C35 must tell the two apart)
HubUnregisterKeepsSubs(c) ==
    /\ HubIdle
    /\ rpc[c] = "unreg_submit"
    /\ IF c \in clients
       THEN /\ clients' = clients \ {c}
            /\ sendClosed' = [sendClosed EXCEPT ![c] = TRUE]
            /\ stats' = [stats EXCEPT !.TotalClients = Cardinality(clients \ {c})]
       ELSE UNCHANGED <<clients, sendClosed, stats>>
    /\ rpc' = [rpc EXCEPT ![c] = "done"]
    /\ connClosed' = [connClosed EXCEPT ![c] = TRUE]
    /\ UNCHANGED <<subscriptions, topics, shuttingDown, hpc, hmsg, hfan>>
    /\ UNCHANGED <<send, queueSize, slowConsumer, csubs, timer>>
    /\ UNCHANGED <<rreq, rreplay, dpc, dframe, dtmp, wpc, panicked, nextId, histVars>>
    /\ UNCHANGED moreVars

\* Hub.Run case client := <-h.unregister as it would be if unregisterClient left
\* emptied subscriber sets in h.subscriptions (C29 must tell the two apart)
HubUnregisterKeepsEmpty(c) ==
    /\ HubIdle
    /\ rpc[c] = "unreg_submit"
    /\ IF c \in clients
       THEN /\ clients' = clients \ {c}
            /\ sendClosed' = [sendClosed EXCEPT ![c] = TRUE]
            /\ subscriptions' = [t \in DOMAIN subscriptions |-> subscriptions[t] \ {c}]
            /\ topics' = [t \in DOMAIN topics |->
                  IF t \in DOMAIN subscriptions /\ c \in subscriptions[t]
                  THEN [topics[t] EXCEPT !.SubscriberCount = Cardinality(subscriptions[t] \ {c})]
                  ELSE topics[t]]
            /\ stats' = [stats EXCEPT !.TotalClients = Cardinality(clients \ {c})]
       ELSE UNCHANGED <<clients, sendClosed, subscriptions, topics, stats>>
    /\ rpc' = [rpc EXCEPT ![c] = "done"]
    /\ connClosed' = [connClosed EXCEPT ![c] = TRUE]
    /\ UNCHANGED <<shuttingDown, hpc, hmsg, hfan>>
    /\ UNCHANGED <<send, queueSize, slowConsumer, csubs, timer>>
    /\ UNCHANGED <<rreq, rreplay, dpc, dframe, dtmp, wpc, panicked, nextId, histVars>>
    /\ UNCHANGED moreVars

\* Hub.Run case client := <-h.unregister: unregisterClient, and the
\* c.conn.Close() that ReadPump's deferred function runs after the hand-off
HubUnregister(c) ==
    /\ HubIdle
    /\ rpc[c] = "unreg_submit"
    /\ IF c \in clients
       THEN /\ clients' = clients \ {c}
            /\ sendClosed' = [sendClosed EXCEPT ![c] = TRUE]
            /\ subscriptions' = DropClient(subscriptions, c)
            /\ topics' = [t \in DOMAIN topics |->
                  IF t \in DOMAIN subscriptions /\ c \in subscriptions[t]
                  THEN [topics[t] EXCEPT !.SubscriberCount = Cardinality(subscriptions[t] \ {c})]
                  ELSE topics[t]]
            /\ stats' = [stats EXCEPT !.TotalClients = Cardinality(clients \ {c})]
       ELSE UNCHANGED <<clients, sendClosed, subscriptions, topics, stats>>
    /\ rpc' = [rpc EXCEPT ![c] = "done"]
    /\ connClosed' = [connClosed EXCEPT ![c] = TRUE]
    /\ UNCHANGED <<shuttingDown, hpc, hmsg, hfan>>
    /\ UNCHANGED <<send, queueSize, slowConsumer, csubs, timer>>
    /\ UNCHANGED <<rreq, rreplay, dpc, dframe, dtmp, wpc, panicked, nextId, histVars>>
    /\ UNCHANGED moreVars

\* subscribeClient as it would be if it ran on the submitter's goroutine, not
\* waiting for Run to come back to its select (C32 must tell the two apart)
HubSubscribeConcurrent(c) ==
    /\ ~panicked
    /\ hpc \in {"select", "ring_head", "ring_size", "fanout"}
    /\ rpc[c] = "sub_submit"
    /\ LET t == rreq[c].topic
           set == (IF t \in DOMAIN subscriptions THEN subscriptions[t] ELSE {}) \cup {c}
       IN  /\ subscriptions' = [x \in DOMAIN subscriptions \cup {t} |->
                                   IF x = t THEN set ELSE subscriptions[x]]
           /\ topics' = IF t \in DOMAIN topics
                        THEN [topics EXCEPT ![t].SubscriberCount = Cardinality(set)]
                        ELSE topics
    /\ rpc' = [rpc EXCEPT ![c] = IF rreq[c].lastN > 0 THEN "replay" ELSE "ack"]
    /\ UNCHANGED <<clients, stats, shuttingDown, hpc, hmsg, hfan>>
    /\ UNCHANGED <<clientVars, rreq, rreplay, dpc, dframe, dtmp, wpc, panicked, nextId, histVars>>
    /\ UNCHANGED moreVars

\* Hub.Run case subscription := <-h.subscribe: subscribeClient
HubSubscribe(c) ==
    /\ HubIdle
    /\ rpc[c] = "sub_submit"
    /\ LET t == rreq[c].topic
           set == (IF t \in DOMAIN subscriptions THEN subscriptions[t] ELSE {}) \cup {c}
       IN  /\ subscriptions' = [x \in DOMAIN subscriptions \cup {t} |->
                                   IF x = t THEN set ELSE subscriptions[x]]
           /\ topics' = IF t \in DOMAIN topics
                        THEN [topics EXCEPT ![t].SubscriberCount = Cardinality(set)]
                        ELSE topics
    /\ rpc' = [rpc EXCEPT ![c] = IF rreq[c].lastN > 0 THEN "replay" ELSE "ack"]
    /\ UNCHANGED <<clients, stats, shuttingDown, hpc, hmsg, hfan>>
    /\ UNCHANGED <<clientVars, rreq, rreplay, dpc, dframe, dtmp, wpc, panicked, nextId, histVars>>
    /\ UNCHANGED moreVars

\* unsubscribeClient as it would be if a topic were removed with its last
\* subscriber (C14 must tell the two apart)
HubUnsubscribeCleanup(c) ==
    /\ HubIdle
    /\ rpc[c] = "unsub_submit"
    /\ LET t == rreq[c].topic
       IN  IF t \in DOMAIN subscriptions
           THEN LET set == subscriptions[t] \ {c}
                IN  /\ subscriptions' = IF set = {}
                                        THEN [x \in DOMAIN subscriptions \ {t} |-> subscriptions[x]]
                                        ELSE [subscriptions EXCEPT ![t] = set]
                    /\ topics' = IF t \in DOMAIN topics
                                 THEN IF set = {}
                                      THEN [x \in DOMAIN topics \ {t} |-> topics[x]]
                                      ELSE [topics EXCEPT ![t].SubscriberCount = Cardinality(set)]
                                 ELSE topics
           ELSE UNCHANGED <<subscriptions, topics>>
    /\ rpc' = [rpc EXCEPT ![c] = "ack"]
    /\ UNCHANGED <<clients, stats, shuttingDown, hpc, hmsg, hfan>>
    /\ UNCHANGED <<clientVars, rreq, rreplay, dpc, dframe, dtmp, wpc, panicked, nextId, histVars>>
    /\ UNCHANGED moreVars

\* Hub.Run case subscription := <-h.unsubscribe: unsubscribeClient
HubUnsubscribe(c) ==
    /\ HubIdle
    /\ rpc[c] = "unsub_submit"
    /\ LET t == rreq[c].topic
       IN  IF t \in DOMAIN subscriptions
           THEN LET set == subscriptions[t] \ {c}
                IN  /\ subscriptions' = IF set = {}
                                        THEN [x \in DOMAIN subscriptions \ {t} |-> subscriptions[x]]
                                        ELSE [subscriptions EXCEPT ![t] = set]
                    /\ topics' = IF t \in DOMAIN topics
                                 THEN [topics EXCEPT ![t].SubscriberCount = Cardinality(set)]
                                 ELSE topics
           ELSE UNCHANGED <<subscriptions, topics>>
    /\ rpc' = [rpc EXCEPT ![c] = "ack"]
    /\ UNCHANGED <<clients, stats, shuttingDown, hpc, hmsg, hfan>>
    /\ UNCHANGED <<clientVars, rreq, rreplay, dpc, dframe, dtmp, wpc, panicked, nextId, histVars>>
    /\ UNCHANGED moreVars

\* the hub is inside publishMessage's RLock section, after the slot write
HubInRing == hpc \in {"ring_head", "ring_size"}

\* Hub.Run case message := <-h.publish: publishMessage from h.mu.RLock() to
\* the write of the ring slot
HubPublish(c) ==
    /\ HubIdle
    /\ rpc[c] = "pub_submit"
    /\ LET message == rreq[c].msg
           t == message.Topic
       IN  IF t \notin DOMAIN subscriptions
           THEN UNCHANGED <<topics, hpc, hmsg, appended>>
           ELSE /\ IF t \in DOMAIN topics
                   THEN /\ topics' = [topics EXCEPT ![t] = RingSlot(topics[t], message)]
                        /\ appended' = [appended EXCEPT ![t] = Append(@, message)]
                   ELSE UNCHANGED <<topics, appended>>
                /\ hmsg' = message
                /\ hpc' = "ring_head"
    /\ rpc' = [rpc EXCEPT ![c] = "ack"]
    /\ UNCHANGED <<subscriptions, clients, stats, shuttingDown, hfan>>
    /\ UNCHANGED <<clientVars, rreq, rreplay, dpc, dframe, dtmp, wpc, panicked, nextId>>
    /\ UNCHANGED <<fanned, dequeued, dcalls, dpre, contended, slowErrs>>
    /\ published' = IF rreq[c].msg.Topic \in DOMAIN topics
                    THEN [published EXCEPT ![rreq[c].msg.Topic] = Append(@, rreq[c].msg)]
                    ELSE published
    /\ UNCHANGED <<spc, elapsed, tickReady, drainIdle, adminLog, replayed>>

\* publishMessage: topic.RingHead = (topic.RingHead + 1) % 100
HubRingHead ==
    /\ hpc = "ring_head"
    /\ ~panicked
    /\ topics' = IF hmsg.Topic \in DOMAIN topics
                 THEN [topics EXCEPT ![hmsg.Topic] = RingAdvance(@)]
                 ELSE topics
    /\ hpc' = "ring_size"
    /\ UNCHANGED <<subscriptions, clients, stats, shuttingDown, hmsg, hfan>>
    /\ UNCHANGED <<clientVars, readerVars, wpc, panicked, nextId, histVars>>
    /\ UNCHANGED moreVars

\* publishMessage: the update of topic.RingSize, h.stats.TotalMessages++, the
\* copy of the subscriber set into clientList, h.mu.RUnlock()
HubRingSize ==
    /\ hpc = "ring_size"
    /\ ~panicked
    /\ LET t == hmsg.Topic
       IN  /\ topics' = IF t \in DOMAIN topics
                        THEN [topics EXCEPT ![t] = RingGrow(@)]
                        ELSE topics
           /\ stats' = [stats EXCEPT !.TotalMessages = @ + 1]
           /\ hfan' = subscriptions[t]
           /\ hmsg' = IF subscriptions[t] = {} THEN NilMsg ELSE hmsg
           /\ hpc' = IF subscriptions[t] = {} THEN "select" ELSE "fanout"
    /\ UNCHANGED <<subscriptions, clients, shuttingDown>>
    /\ UNCHANGED <<clientVars, readerVars, wpc, panicked, nextId, histVars>>
    /\ UNCHANGED moreVars

\* publishMessage, one iteration of "for _, client := range clientList":
\* the result of the select on client.send
FanoutSend(q, closed, frame) ==
    IF closed THEN [q |-> q, ok |-> FALSE, panic |-> TRUE]
    ELSE IF Len(q) < QueueCap THEN [q |-> Append(q, frame), ok |-> TRUE, panic |-> FALSE]
    ELSE [q |-> q, ok |-> FALSE, panic |-> FALSE]

\* one iteration of the fan-out loop as it would be with a plain send
\* "client.send <- ..." in place of the select with default (C26 must tell the
\* two apart)
HubFanoutBlocking(c) ==
    /\ hpc = "fanout"
    /\ ~panicked
    /\ c \in hfan
    /\ sendClosed[c] \/ Len(send[c]) < QueueCap
    /\ LET r == FanoutSend(send[c], sendClosed[c], createEventMessageBytes(hmsg))
       IN  /\ send' = [send EXCEPT ![c] = r.q]
           /\ panicked' = r.panic
           /\ contended' = [contended EXCEPT ![c] = @ \/ (r.ok /\ dpc[c] # "none")]
    /\ fanned' = [fanned EXCEPT ![c] = Append(@, hmsg)]
    /\ hfan' = hfan \ {c}
    /\ hpc' = IF hfan \ {c} = {} THEN "select" ELSE "fanout"
    /\ hmsg' = IF hfan \ {c} = {} THEN NilMsg ELSE hmsg
    /\ UNCHANGED <<topics, subscriptions, clients, stats, shuttingDown>>
    /\ UNCHANGED <<sendClosed, queueSize, slowConsumer, csubs, connClosed, timer>>
    /\ UNCHANGED <<readerVars, wpc, nextId, appended, dequeued, dcalls, dpre, slowErrs>>
    /\ UNCHANGED moreVars

HubFanout(c) ==
    /\ hpc = "fanout"
    /\ ~panicked
    /\ c \in hfan
    /\ LET r == FanoutSend(send[c], sendClosed[c], createEventMessageBytes(hmsg))
       IN  /\ send' = [send EXCEPT ![c] = r.q]
           /\ panicked' = r.panic
           /\ contended' = [contended EXCEPT ![c] = @ \/ (r.ok /\ dpc[c] # "none")]
    /\ fanned' = [fanned EXCEPT ![c] = Append(@, hmsg)]
    /\ hfan' = hfan \ {c}
    /\ hpc' = IF hfan \ {c} = {} THEN "select" ELSE "fanout"
    /\ hmsg' = IF hfan \ {c} = {} THEN NilMsg ELSE hmsg
    /\ UNCHANGED <<topics, subscriptions, clients, stats, shuttingDown>>
    /\ UNCHANGED <<sendClosed, queueSize, slowConsumer, csubs, connClosed, timer>>
    /\ UNCHANGED <<readerVars, wpc, nextId, appended, dequeued, dcalls, dpre, slowErrs>>
    /\ UNCHANGED moreVars

\* one entry of the record of administrative calls
AdminCall(op, name, err) == [op |-> op, name |-> name, err |-> err]

\* CreateTopic as it would be without the test for an existing name (C12 must
\* tell the two apart)
CreateTopicOverwrite(name) ==
    /\ ~panicked
    /\ ~HubInRing
    /\ Len(adminLog) < MaxAdmin
    /\ topics' = [t \in DOMAIN topics \cup {name} |->
                     IF t = name THEN NewTopic ELSE topics[t]]
    /\ stats' = [stats EXCEPT !.TotalTopics = Cardinality(DOMAIN topics \cup {name})]
    /\ appended' = [appended EXCEPT ![name] = <<>>]
    /\ published' = [published EXCEPT ![name] = <<>>]
    /\ adminLog' = Append(adminLog, AdminCall("create", name, "nil"))
    /\ UNCHANGED <<subscriptions, clients, shuttingDown, hpc, hmsg, hfan>>
    /\ UNCHANGED <<clientVars, readerVars, wpc, panicked, nextId>>
    /\ UNCHANGED <<fanned, dequeued, dcalls, dpre, contended, slowErrs>>
    /\ UNCHANGED <<spc, elapsed, tickReady, drainIdle, replayed>>

\* CreateTopic (h.mu.Lock() waits for the hub's RLock section to end)
CreateTopic(name) ==
    /\ ~panicked
    /\ ~HubInRing
    /\ Len(adminLog) < MaxAdmin
    /\ IF name \in DOMAIN topics
       THEN /\ adminLog' = Append(adminLog, AdminCall("create", name, "ErrTopicExists"))
            /\ UNCHANGED <<topics, stats, appended, published>>
       ELSE /\ topics' = [t \in DOMAIN topics \cup {name} |->
                             IF t = name THEN NewTopic ELSE topics[t]]
            /\ stats' = [stats EXCEPT !.TotalTopics = Cardinality(DOMAIN topics \cup {name})]
            /\ appended' = [appended EXCEPT ![name] = <<>>]
            /\ published' = [published EXCEPT ![name] = <<>>]
            /\ adminLog' = Append(adminLog, AdminCall("create", name, "nil"))
    /\ UNCHANGED <<subscriptions, clients, shuttingDown, hpc, hmsg, hfan>>
    /\ UNCHANGED <<clientVars, readerVars, wpc, panicked, nextId>>
    /\ UNCHANGED <<fanned, dequeued, dcalls, dpre, contended, slowErrs>>
    /\ UNCHANGED <<spc, elapsed, tickReady, drainIdle, replayed>>

\* DeleteTopic as it would be without delete(h.subscriptions, name) (C13 must
\* tell the two apart)
DeleteTopicKeepSubs(name) ==
    /\ ~panicked
    /\ ~HubInRing
    /\ Len(adminLog) < MaxAdmin
    /\ IF name \notin DOMAIN topics
       THEN /\ adminLog' = Append(adminLog, AdminCall("delete", name, "ErrTopicNotFound"))
            /\ UNCHANGED <<topics, stats, appended, published>>
       ELSE /\ topics' = [t \in DOMAIN topics \ {name} |-> topics[t]]
            /\ stats' = [stats EXCEPT !.TotalTopics = Cardinality(DOMAIN topics \ {name})]
            /\ appended' = [appended EXCEPT ![name] = <<>>]
            /\ published' = [published EXCEPT ![name] = <<>>]
            /\ adminLog' = Append(adminLog, AdminCall("delete", name, "nil"))
    /\ UNCHANGED <<subscriptions, clients, shuttingDown, hpc, hmsg, hfan>>
    /\ UNCHANGED <<clientVars, readerVars, wpc, panicked, nextId>>
    /\ UNCHANGED <<fanned, dequeued, dcalls, dpre, contended, slowErrs>>
    /\ UNCHANGED <<spc, elapsed, tickReady, drainIdle, replayed>>

\* DeleteTopic
DeleteTopic(name) ==
    /\ ~panicked
    /\ ~HubInRing
    /\ Len(adminLog) < MaxAdmin
    /\ IF name \notin DOMAIN topics
       THEN /\ adminLog' = Append(adminLog, AdminCall("delete", name, "ErrTopicNotFound"))
            /\ UNCHANGED <<topics, subscriptions, stats, appended, published>>
       ELSE /\ topics' = [t \in DOMAIN topics \ {name} |-> topics[t]]
            /\ subscriptions' = [t \in DOMAIN subscriptions \ {name} |-> subscriptions[t]]
            /\ stats' = [stats EXCEPT !.TotalTopics = Cardinality(DOMAIN topics \ {name})]
            /\ appended' = [appended EXCEPT ![name] = <<>>]
            /\ published' = [published EXCEPT ![name] = <<>>]
            /\ adminLog' = Append(adminLog, AdminCall("delete", name, "nil"))
    /\ UNCHANGED <<clients, shuttingDown, hpc, hmsg, hfan>>
    /\ UNCHANGED <<clientVars, readerVars, wpc, panicked, nextId>>
    /\ UNCHANGED <<fanned, dequeued, dcalls, dpre, contended, slowErrs>>
    /\ UNCHANGED <<spc, elapsed, tickReady, drainIdle, replayed>>

\* Hub.Shutdown: h.shuttingDown = true under h.mu.Lock()
ShutdownMark ==
    /\ ~panicked
    /\ spc = "idle"
    /\ ~HubInRing
    /\ shuttingDown' = TRUE
    /\ spc' = "marked"
    /\ UNCHANGED <<topics, subscriptions, clients, stats, hpc, hmsg, hfan>>
    /\ UNCHANGED <<clientVars, readerVars, wpc, panicked, nextId, histVars>>
    /\ UNCHANGED <<elapsed, tickReady, drainIdle, adminLog, published, replayed>>

\* Hub.Shutdown: close(h.shutdown)
ShutdownSignal ==
    /\ ~panicked
    /\ spc = "marked"
    /\ spc' = "closed"
    /\ UNCHANGED <<hubVars, clientVars, readerVars, wpc, panicked, nextId, histVars>>
    /\ UNCHANGED <<elapsed, tickReady, drainIdle, adminLog, published, replayed>>

\* gracefulShutdown up to its loop as it would be if the ticker delivered its
\* first tick at once (C20 must tell the two apart)
gracefulShutdownTicked ==
    /\ HubIdle
    /\ spc = "closed"
    /\ shuttingDown' = TRUE
    /\ hpc' = "drain"
    /\ elapsed' = 0
    /\ tickReady' = TRUE
    /\ drainIdle' = (\A c \in clients : queueSize[c] = 0)
    /\ UNCHANGED <<topics, subscriptions, clients, stats, hmsg, hfan>>
    /\ UNCHANGED <<clientVars, readerVars, wpc, panicked, nextId, histVars>>
    /\ UNCHANGED <<spc, adminLog, published, replayed>>

\* Hub.Run case <-h.shutdown, and gracefulShutdown up to its loop: the flag is
\* set again and the timeout and the ticker are started
gracefulShutdown ==
    /\ HubIdle
    /\ spc = "closed"
    /\ shuttingDown' = TRUE
    /\ hpc' = "drain"
    /\ elapsed' = 0
    /\ tickReady' = FALSE
    /\ drainIdle' = (\A c \in clients : queueSize[c] = 0)
    /\ UNCHANGED <<topics, subscriptions, clients, stats, hmsg, hfan>>
    /\ UNCHANGED <<clientVars, readerVars, wpc, panicked, nextId, histVars>>
    /\ UNCHANGED <<spc, adminLog, published, replayed>>

\* allClientsFlushed has to wait: a goroutine holds some live client's c.mu
\* (it is inside handleQueueOverflow)
PollBlocked == \E c \in clients : dpc[c] # "none"

\* allClientsFlushed's result
allClientsFlushed == \A c \in clients : queueSize[c] <= 0

\* forceCloseAllClients: client.conn.Close() for every live client
forceCloseAllClients == [c \in Clients |-> connClosed[c] \/ c \in clients]

\* the Hub goroutine can take a step of gracefulShutdown's loop now
DrainStepReady ==
    \/ hpc = "drain" /\ (tickReady \/ elapsed >= DrainTicks)
    \/ hpc = "poll" /\ ~PollBlocked
    \/ hpc = "close"

\* one ticker period passes while gracefulShutdown's loop waits (on its select,
\* or on a client's lock): the ticker leaves a tick in ticker.C
DrainTick ==
    /\ ~panicked
    /\ hpc \in {"drain", "poll"}
    /\ ~DrainStepReady
    /\ elapsed < DrainTicks
    /\ elapsed' = elapsed + 1
    /\ tickReady' = TRUE
    /\ UNCHANGED <<hubVars, clientVars, readerVars, wpc, panicked, nextId, histVars>>
    /\ UNCHANGED <<spc, drainIdle, adminLog, published, replayed>>

\* gracefulShutdown: case <-ticker.C
DrainTakeTick ==
    /\ ~panicked
    /\ hpc = "drain"
    /\ tickReady
    /\ tickReady' = FALSE
    /\ hpc' = "poll"
    /\ UNCHANGED <<topics, subscriptions, clients, stats, shuttingDown, hmsg, hfan>>
    /\ UNCHANGED <<clientVars, readerVars, wpc, panicked, nextId, histVars>>
    /\ UNCHANGED <<spc, elapsed, drainIdle, adminLog, published, replayed>>

\* gracefulShutdown: if h.allClientsFlushed() as it would be if the result of
\* the call were not looked at (C31 must tell the two apart)
DrainPollAnyway ==
    /\ ~panicked
    /\ hpc = "poll"
    /\ ~PollBlocked
    /\ hpc' = "close"
    /\ UNCHANGED <<topics, subscriptions, clients, stats, shuttingDown, hmsg, hfan>>
    /\ UNCHANGED <<clientVars, readerVars, wpc, panicked, nextId, histVars, moreVars>>

\* gracefulShutdown: if h.allClientsFlushed(): the call and the branch on its
\* result; the locks of the call are released when it returns
DrainPoll ==
    /\ ~panicked
    /\ hpc = "poll"
    /\ ~PollBlocked
    /\ hpc' = IF allClientsFlushed THEN "close" ELSE "drain"
    /\ UNCHANGED <<topics, subscriptions, clients, stats, shuttingDown, hmsg, hfan>>
    /\ UNCHANGED <<clientVars, readerVars, wpc, panicked, nextId, histVars, moreVars>>

\* gracefulShutdown: h.forceCloseAllClients(); return, after a poll that found
\* every queue flushed
DrainClose ==
    /\ ~panicked
    /\ hpc = "close"
    /\ connClosed' = forceCloseAllClients
    /\ hpc' = "returned"
    /\ UNCHANGED <<topics, subscriptions, clients, stats, shuttingDown, hmsg, hfan>>
    /\ UNCHANGED <<send, sendClosed, queueSize, slowConsumer, csubs, timer>>
    /\ UNCHANGED <<readerVars, wpc, panicked, nextId, histVars, moreVars>>

\* gracefulShutdown: case <-timeout as it would be if the case polled once more
\* instead of closing the connections (C19 must tell the two apart)
DrainTimeoutPolls ==
    /\ ~panicked
    /\ hpc = "drain"
    /\ elapsed >= DrainTicks
    /\ hpc' = "poll"
    /\ UNCHANGED <<topics, subscriptions, clients, stats, shuttingDown, hmsg, hfan>>
    /\ UNCHANGED <<clientVars, readerVars, wpc, panicked, nextId, histVars, moreVars>>

\* gracefulShutdown: case <-timeout
DrainTimeout ==
    /\ ~panicked
    /\ hpc = "drain"
    /\ elapsed >= DrainTicks
    /\ connClosed' = forceCloseAllClients
    /\ hpc' = "returned"
    /\ UNCHANGED <<topics, subscriptions, clients, stats, shuttingDown, hmsg, hfan>>
    /\ UNCHANGED <<send, sendClosed, queueSize, slowConsumer, csubs, timer>>
    /\ UNCHANGED <<readerVars, wpc, panicked, nextId, histVars, moreVars>>

\* --------------------------------------------------------------- client.go
Inc(n) == IF n > QueueCap THEN n ELSE n + 1

\* what sendWithBackpressure and handleQueueOverflow assign
deliverVars == <<send, queueSize, dpc, dframe, dpre, contended, dcalls, panicked>>

\* what the reader's request handlers leave alone apart from rpc, rreq, csubs, nextId
readerFrame == <<hubVars, sendClosed, slowConsumer, connClosed, timer, rreplay, dtmp,
                 wpc, appended, fanned, dequeued, slowErrs>>

\* sendWithBackpressure up to its select: c.mu is taken, and is kept while
\* dpc[c] # "none" (handleQueueOverflow runs under it)
sendWithBackpressure(c, data) ==
    /\ queueSize[c] < MaxCount
    /\ dcalls' = [dcalls EXCEPT ![c] = Inc(@)]
    /\ IF slowConsumer[c]
       THEN UNCHANGED <<send, queueSize, dpc, dframe, dpre, contended, panicked>>
       ELSE IF sendClosed[c]
       THEN /\ panicked' = TRUE
            /\ UNCHANGED <<send, queueSize, dpc, dframe, dpre, contended>>
       ELSE IF Len(send[c]) < QueueCap
       THEN /\ send' = [send EXCEPT ![c] = Append(@, data)]
            /\ queueSize' = [queueSize EXCEPT ![c] = @ + 1]
            /\ UNCHANGED <<dpc, dframe, dpre, contended, panicked>>
       ELSE /\ dpc' = [dpc EXCEPT ![c] = "ov1"]
            /\ dframe' = [dframe EXCEPT ![c] = data]
            /\ dpre' = [dpre EXCEPT ![c] = [q |-> send[c], n |-> queueSize[c]]]
            /\ contended' = [contended EXCEPT ![c] = FALSE]
            /\ UNCHANGED <<send, queueSize, panicked>>

\* the end of sendWithBackpressure: its locals go, c.mu is released
DeliverReturn(c) ==
    /\ dpc' = [dpc EXCEPT ![c] = "none"]
    /\ dframe' = [dframe EXCEPT ![c] = NilFrame]
    /\ dtmp' = [dtmp EXCEPT ![c] = NilFrame]
    /\ dpre' = [dpre EXCEPT ![c] = NoPre]
    /\ contended' = [contended EXCEPT ![c] = FALSE]

overflowFrame == <<hubVars, sendClosed, csubs, connClosed, rpc, rreq, rreplay, wpc,
                   nextId, appended, fanned, dequeued, dcalls>>

\* OverflowRemove as it would be if a full queue evicted the connection at
\* once, without trying the swap (C6 must tell the two apart)
OverflowRemoveEvicts(c) ==
    /\ ~panicked
    /\ dpc[c] = "ov1"
    /\ slowConsumer' = [slowConsumer EXCEPT ![c] = TRUE]
    /\ dpc' = [dpc EXCEPT ![c] = "slowerr"]
    /\ UNCHANGED <<send, queueSize>>
    /\ UNCHANGED <<overflowFrame, dframe, dtmp, dpre, contended, panicked, timer, slowErrs>>
    /\ UNCHANGED moreVars

\* handleQueueOverflow, the outer select: "case <-c.send" or default
OverflowRemove(c) ==
    /\ ~panicked
    /\ dpc[c] = "ov1"
    /\ IF Len(send[c]) > 0 \/ sendClosed[c]
       THEN /\ send' = [send EXCEPT ![c] = IF Len(@) > 0 THEN Tail(@) ELSE @]
            /\ queueSize' = [queueSize EXCEPT ![c] = @ - 1]
            /\ dpc' = [dpc EXCEPT ![c] = "ov2"]
            /\ UNCHANGED slowConsumer
       ELSE /\ slowConsumer' = [slowConsumer EXCEPT ![c] = TRUE]
            /\ dpc' = [dpc EXCEPT ![c] = "slowerr"]
            /\ UNCHANGED <<send, queueSize>>
    /\ UNCHANGED <<overflowFrame, dframe, dtmp, dpre, contended, panicked, timer, slowErrs>>
    /\ UNCHANGED moreVars

\* handleQueueOverflow, the inner select's send operand "<-c.send": evaluated on
\* entering the select, a blocking receive
OverflowReceive(c) ==
    /\ ~panicked
    /\ dpc[c] = "ov2"
    /\ Len(send[c]) > 0 \/ sendClosed[c]
    /\ dtmp' = [dtmp EXCEPT ![c] = IF Len(send[c]) > 0 THEN Head(send[c]) ELSE NilFrame]
    /\ send' = [send EXCEPT ![c] = IF Len(@) > 0 THEN Tail(@) ELSE @]
    /\ dpc' = [dpc EXCEPT ![c] = "ov3"]
    /\ UNCHANGED <<overflowFrame, queueSize, slowConsumer, dframe, dpre, contended,
                   panicked, timer, slowErrs>>
    /\ UNCHANGED moreVars

\* handleQueueOverflow, the value the inner select sends: c.send <- <-c.send
Requeued(received, data) == received

\* handleQueueOverflow's inner select as it would be without its default case,
\* the send waiting for room (C27 must tell the two apart)
OverflowRequeueBlocking(c) ==
    /\ ~panicked
    /\ dpc[c] = "ov3"
    /\ sendClosed[c] \/ Len(send[c]) < QueueCap
    /\ IF sendClosed[c]
       THEN /\ panicked' = TRUE
            /\ UNCHANGED <<send, queueSize, dpc, dframe, dtmp, dpre, contended>>
       ELSE /\ send' = [send EXCEPT ![c] = Append(@, Requeued(dtmp[c], dframe[c]))]
            /\ queueSize' = [queueSize EXCEPT ![c] = @ + 1]
            /\ DeliverReturn(c)
            /\ UNCHANGED panicked
    /\ UNCHANGED <<overflowFrame, slowConsumer, timer, slowErrs>>
    /\ UNCHANGED moreVars

\* handleQueueOverflow, the inner select: the send or default
OverflowRequeue(c) ==
    /\ ~panicked
    /\ dpc[c] = "ov3"
    /\ IF sendClosed[c]
       THEN /\ panicked' = TRUE
            /\ UNCHANGED <<send, queueSize, slowConsumer, dpc, dframe, dtmp, dpre, contended>>
       ELSE IF Len(send[c]) < QueueCap
       THEN /\ send' = [send EXCEPT ![c] = Append(@, Requeued(dtmp[c], dframe[c]))]
            /\ queueSize' = [queueSize EXCEPT ![c] = @ + 1]
            /\ DeliverReturn(c)
            /\ UNCHANGED <<slowConsumer, panicked>>
       ELSE /\ slowConsumer' = [slowConsumer EXCEPT ![c] = TRUE]
            /\ dpc' = [dpc EXCEPT ![c] = "slowerr"]
            /\ UNCHANGED <<send, queueSize, dframe, dtmp, dpre, contended, panicked>>
    /\ UNCHANGED <<overflowFrame, timer, slowErrs>>
    /\ UNCHANGED moreVars

\* sendSlowConsumerError as it would be without the goroutine that closes the
\* connection (C7 must tell the two apart)
sendSlowConsumerErrorNoClose(c) ==
    /\ ~panicked
    /\ dpc[c] = "slowerr"
    /\ IF sendClosed[c]
       THEN /\ panicked' = TRUE
            /\ UNCHANGED <<send, slowErrs, dpc, dframe, dtmp, dpre, contended>>
       ELSE /\ IF Len(send[c]) < QueueCap
               THEN /\ send' = [send EXCEPT ![c] =
                                   Append(@, createErrorMessageBytes("SLOW_CONSUMER"))]
                    /\ slowErrs' = [slowErrs EXCEPT ![c] = @ + 1]
               ELSE UNCHANGED <<send, slowErrs>>
            /\ DeliverReturn(c)
            /\ UNCHANGED panicked
    /\ UNCHANGED <<overflowFrame, queueSize, slowConsumer, timer>>
    /\ UNCHANGED moreVars

\* sendSlowConsumerError: the select on c.send, and the start of the goroutine
\* that closes the connection
sendSlowConsumerError(c) ==
    /\ ~panicked
    /\ dpc[c] = "slowerr"
    /\ IF sendClosed[c]
       THEN /\ panicked' = TRUE
            /\ UNCHANGED <<send, slowErrs, timer, dpc, dframe, dtmp, dpre, contended>>
       ELSE /\ IF Len(send[c]) < QueueCap
               THEN /\ send' = [send EXCEPT ![c] =
                                   Append(@, createErrorMessageBytes("SLOW_CONSUMER"))]
                    /\ slowErrs' = [slowErrs EXCEPT ![c] = @ + 1]
               ELSE UNCHANGED <<send, slowErrs>>
            /\ timer' = [timer EXCEPT ![c] = TRUE]
            /\ DeliverReturn(c)
            /\ UNCHANGED panicked
    /\ UNCHANGED <<overflowFrame, queueSize, slowConsumer>>
    /\ UNCHANGED moreVars

\* the goroutine of sendSlowConsumerError: time.Sleep, then c.conn.Close()
CloseTimer(c) ==
    /\ ~panicked
    /\ timer[c]
    /\ timer' = [timer EXCEPT ![c] = FALSE]
    /\ connClosed' = [connClosed EXCEPT ![c] = TRUE]
    /\ UNCHANGED <<hubVars, send, sendClosed, queueSize, slowConsumer, csubs>>
    /\ UNCHANGED <<readerVars, wpc, panicked, nextId, histVars>>
    /\ UNCHANGED moreVars

\* ReadPump is at c.conn.ReadMessage()
ReaderReady(c) ==
    /\ ~panicked
    /\ rpc[c] = "read"
    /\ dpc[c] = "none"

\* HandleWebSocket: NewClient, then h.hub.Register <- client
Accept(c) ==
    /\ ~panicked
    /\ rpc[c] = "new"
    /\ rpc' = [rpc EXCEPT ![c] = "reg_submit"]
    /\ UNCHANGED <<hubVars, clientVars, rreq, rreplay, dpc, dframe, dtmp>>
    /\ UNCHANGED <<wpc, panicked, nextId, histVars>>
    /\ UNCHANGED moreVars

\* ReadPump: ReadMessage fails (the connection was closed, the peer left, or the
\* read deadline passed); the deferred function then blocks on h.unregister
ReadError(c) ==
    /\ ReaderReady(c)
    /\ rpc' = [rpc EXCEPT ![c] = "unreg_submit"]
    /\ UNCHANGED <<hubVars, clientVars, rreq, rreplay, dpc, dframe, dtmp>>
    /\ UNCHANGED <<wpc, panicked, nextId, histVars>>
    /\ UNCHANGED moreVars

\* handleMessage case PingMessage: handlePing, sendPong
ReadPing(c) ==
    /\ ReaderReady(c)
    /\ ~connClosed[c]
    /\ sendWithBackpressure(c, createPongMessageBytes)
    /\ UNCHANGED <<readerFrame, rpc, rreq, csubs, nextId>>
    /\ UNCHANGED moreVars

\* ReadPump on malformed JSON, handleMessage's default case, and the handlers'
\* validation failures: sendError(..., "BAD_REQUEST", ...)
ReadBadRequest(c) ==
    /\ ReaderReady(c)
    /\ ~connClosed[c]
    /\ sendWithBackpressure(c, createErrorMessageBytes("BAD_REQUEST"))
    /\ UNCHANGED <<readerFrame, rpc, rreq, csubs, nextId>>
    /\ UNCHANGED moreVars

\* handlePublish with a valid request, up to c.hub.publish <- ...
ReadPublish(c, t) ==
    /\ ReaderReady(c)
    /\ ~connClosed[c]
    /\ nextId <= MaxMsgs
    /\ rreq' = [rreq EXCEPT ![c] =
                   [type |-> "publish", topic |-> t, lastN |-> 0, msg |-> PubSubMessage(t, nextId)]]
    /\ nextId' = nextId + 1
    /\ rpc' = [rpc EXCEPT ![c] = "pub_submit"]
    /\ UNCHANGED <<readerFrame, deliverVars, csubs>>
    /\ UNCHANGED moreVars

\* handleSubscribe with a valid request, up to c.hub.subscribe <- ...
ReadSubscribe(c, t, lastN) ==
    /\ ReaderReady(c)
    /\ ~connClosed[c]
    /\ csubs' = [csubs EXCEPT ![c] = @ \cup {t}]
    /\ rreq' = [rreq EXCEPT ![c] =
                   [type |-> "subscribe", topic |-> t, lastN |-> lastN, msg |-> NilMsg]]
    /\ rpc' = [rpc EXCEPT ![c] = "sub_submit"]
    /\ UNCHANGED <<readerFrame, deliverVars, nextId>>
    /\ replayed' = [replayed EXCEPT ![c] = [base |-> Len(published[t]), msgs |-> <<>>]]
    /\ UNCHANGED <<spc, elapsed, tickReady, drainIdle, adminLog, published>>

\* handleUnsubscribe with a valid request, up to c.hub.unsubscribe <- ...
ReadUnsubscribe(c, t) ==
    /\ ReaderReady(c)
    /\ ~connClosed[c]
    /\ csubs' = [csubs EXCEPT ![c] = @ \ {t}]
    /\ rreq' = [rreq EXCEPT ![c] =
                   [type |-> "unsubscribe", topic |-> t, lastN |-> 0, msg |-> NilMsg]]
    /\ rpc' = [rpc EXCEPT ![c] = "unsub_submit"]
    /\ UNCHANGED <<readerFrame, deliverVars, nextId>>
    /\ UNCHANGED moreVars

\* handleSubscribe: recentMessages := c.hub.GetRecentMessages(msg.Topic, msg.LastN)
ReplayQuery(c) ==
    /\ ~panicked
    /\ rpc[c] = "replay"
    /\ LET recentMessages == GetRecentMessages(rreq[c].topic, rreq[c].lastN)
       IN  /\ rreplay' = [rreplay EXCEPT ![c] = recentMessages]
           /\ rpc' = [rpc EXCEPT ![c] = IF recentMessages = <<>> THEN "ack" ELSE "replay_send"]
    /\ UNCHANGED <<hubVars, clientVars, rreq, dpc, dframe, dtmp>>
    /\ UNCHANGED <<wpc, panicked, nextId, histVars>>
    /\ UNCHANGED moreVars

\* handleSubscribe: one iteration of "for _, recentMsg := range recentMessages":
\* sendEvent
ReplaySend(c) ==
    /\ ~panicked
    /\ rpc[c] = "replay_send"
    /\ dpc[c] = "none"
    /\ sendWithBackpressure(c, createEventMessageBytes(Head(rreplay[c])))
    /\ rreplay' = [rreplay EXCEPT ![c] = Tail(@)]
    /\ rpc' = [rpc EXCEPT ![c] = IF Tail(rreplay[c]) = <<>> THEN "ack" ELSE "replay_send"]
    /\ UNCHANGED <<hubVars, sendClosed, slowConsumer, connClosed, timer, dtmp,
                   wpc, appended, fanned, dequeued, slowErrs, rreq, csubs, nextId>>
    /\ replayed' = [replayed EXCEPT ![c].msgs = Append(@, Head(rreplay[c]))]
    /\ UNCHANGED <<spc, elapsed, tickReady, drainIdle, adminLog, published>>

\* the handlers' last statement: c.sendAck(msg.RequestID, msg.Topic, "ok")
SendAck(c) ==
    /\ ~panicked
    /\ rpc[c] = "ack"
    /\ dpc[c] = "none"
    /\ sendWithBackpressure(c, createAckMessageBytes(rreq[c].topic))
    /\ rreq' = [rreq EXCEPT ![c] = NoReq]
    /\ rpc' = [rpc EXCEPT ![c] = "read"]
    /\ UNCHANGED <<readerFrame, csubs, nextId>>
    /\ UNCHANGED moreVars

writerFrame == <<hubVars, sendClosed, slowConsumer, csubs, timer, readerVars,
                 panicked, nextId, appended, fanned, dcalls, dpre, slowErrs>>

\* WritePump: case message, ok := <-c.send
WriteReceive(c) ==
    /\ ~panicked
    /\ wpc[c] = "wait"
    /\ IF Len(send[c]) > 0
       THEN /\ send' = [send EXCEPT ![c] = Tail(@)]
            /\ wpc' = [wpc EXCEPT ![c] = "write"]
            /\ dequeued' = [dequeued EXCEPT ![c] = TRUE]
            /\ contended' = [contended EXCEPT ![c] = @ \/ dpc[c] # "none"]
            /\ UNCHANGED connClosed
       ELSE /\ sendClosed[c]
            /\ wpc' = [wpc EXCEPT ![c] = "done"]
            /\ connClosed' = [connClosed EXCEPT ![c] = TRUE]
            /\ UNCHANGED <<send, dequeued, contended>>
    /\ UNCHANGED <<writerFrame, queueSize>>
    /\ UNCHANGED moreVars

\* WritePump: c.conn.WriteMessage(websocket.TextMessage, message)
WriteMessage(c) ==
    /\ ~panicked
    /\ wpc[c] = "write"
    /\ wpc' = [wpc EXCEPT ![c] = IF connClosed[c] THEN "done" ELSE "dec"]
    /\ UNCHANGED <<writerFrame, send, queueSize, connClosed, dequeued, contended>>
    /\ UNCHANGED moreVars

\* WritePump: the update of c.queueSize under c.mu after a successful write
WriteAccount(c) ==
    /\ ~panicked
    /\ wpc[c] = "dec"
    /\ dpc[c] = "none"
    /\ queueSize' = [queueSize EXCEPT ![c] = IF @ > 0 THEN @ - 1 ELSE @]
    /\ wpc' = [wpc EXCEPT ![c] = "wait"]
    /\ UNCHANGED <<writerFrame, send, connClosed, dequeued, contended>>
    /\ UNCHANGED moreVars

\* WritePump: case <-ticker.C, when the ping cannot be written
WriteTick(c) ==
    /\ ~panicked
    /\ wpc[c] = "wait"
    /\ connClosed[c]
    /\ wpc' = [wpc EXCEPT ![c] = "done"]
    /\ UNCHANGED <<writerFrame, send, queueSize, connClosed, dequeued, contended>>
    /\ UNCHANGED moreVars

\* ------------------------------------------------------------ specifications
LastNs == {0, 1, MaxLastN}

\* NewClient, apart from c.subscriptions
ClientInitExcept ==
    /\ send = [c \in Clients |-> <<>>]
    /\ sendClosed = [c \in Clients |-> FALSE]
    /\ queueSize = [c \in Clients |-> 0]
    /\ slowConsumer = [c \in Clients |-> FALSE]
    /\ connClosed = [c \in Clients |-> FALSE]
    /\ timer = [c \in Clients |-> FALSE]
    /\ rreq = [c \in Clients |-> NoReq]
    /\ rreplay = [c \in Clients |-> <<>>]
    /\ dpc = [c \in Clients |-> "none"]
    /\ dframe = [c \in Clients |-> NilFrame]
    /\ dtmp = [c \in Clients |-> NilFrame]
    /\ panicked = FALSE
    /\ nextId = 1
    /\ appended = [t \in TopicNames |-> <<>>]
    /\ fanned = [c \in Clients |-> <<>>]
    /\ dequeued = [c \in Clients |-> FALSE]
    /\ dcalls = [c \in Clients |-> 0]
    /\ dpre = [c \in Clients |-> NoPre]
    /\ contended = [c \in Clients |-> FALSE]
    /\ slowErrs = [c \in Clients |-> 0]
    /\ spc = "idle"
    /\ elapsed = 0
    /\ tickReady = FALSE
    /\ drainIdle = FALSE
    /\ adminLog = <<>>
    /\ published = [t \in TopicNames |-> <<>>]
    /\ replayed = [c \in Clients |-> NoReplay]

\* NewHub, with no connection accepted yet
Init ==
    /\ topics = [t \in {} |-> NewTopic]
    /\ subscriptions = [t \in {} |-> {}]
    /\ clients = {}
    /\ stats = [TotalClients |-> 0, TotalTopics |-> 0, TotalMessages |-> 0]
    /\ shuttingDown = FALSE
    /\ hpc = "select"
    /\ hmsg = NilMsg
    /\ hfan = {}
    /\ rpc = [c \in Clients |-> "new"]
    /\ wpc = [c \in Clients |-> "off"]
    /\ ClientInitExcept
    /\ csubs = [c \in Clients |-> {}]

Next ==
    \/ \E c \in Clients : Accept(c)
    \/ \E c \in Clients : HubRegister(c)
    \/ \E c \in Clients : HubUnregister(c)
    \/ \E c \in Clients : HubSubscribe(c)
    \/ \E c \in Clients : HubUnsubscribe(c)
    \/ \E c \in Clients : HubPublish(c)
    \/ HubRingHead
    \/ HubRingSize
    \/ \E c \in Clients : HubFanout(c)
    \/ \E t \in TopicNames : CreateTopic(t)
    \/ \E t \in TopicNames : DeleteTopic(t)
    \/ ShutdownMark
    \/ ShutdownSignal
    \/ gracefulShutdown
    \/ DrainTick
    \/ DrainTakeTick
    \/ DrainPoll
    \/ DrainClose
    \/ DrainTimeout
    \/ \E c \in Clients : ReadError(c)
    \/ \E c \in Clients : ReadPing(c)
    \/ \E c \in Clients : ReadBadRequest(c)
    \/ \E c \in Clients, t \in TopicNames : ReadPublish(c, t)
    \/ \E c \in Clients, t \in TopicNames, n \in LastNs : ReadSubscribe(c, t, n)
    \/ \E c \in Clients, t \in TopicNames : ReadUnsubscribe(c, t)
    \/ \E c \in Clients : ReplayQuery(c)
    \/ \E c \in Clients : ReplaySend(c)
    \/ \E c \in Clients : SendAck(c)
    \/ \E c \in Clients : OverflowRemove(c)
    \/ \E c \in Clients : OverflowReceive(c)
    \/ \E c \in Clients : OverflowRequeue(c)
    \/ \E c \in Clients : sendSlowConsumerError(c)
    \/ \E c \in Clients : CloseTimer(c)
    \/ \E c \in Clients : WriteReceive(c)
    \/ \E c \in Clients : WriteMessage(c)
    \/ \E c \in Clients : WriteAccount(c)
    \/ \E c \in Clients : WriteTick(c)

Spec == Init /\ [][Next]_vars

\* A broker with topics t1 and t2 on which the connections of `live` have been
\* accepted and registered and those of `subs` have subscribed to t1 (the acks
\* written out): the state CreateTopic, HandleWebSocket and the subscribe
\* requests lead to.
Established(live, subs) ==
    /\ topics = [t \in TopicNames |->
                    IF t = "t1" THEN [NewTopic EXCEPT !.SubscriberCount = Cardinality(subs)]
                    ELSE NewTopic]
    /\ subscriptions = [t \in (IF subs = {} THEN {} ELSE {"t1"}) |-> subs]
    /\ clients = live
    /\ stats = [TotalClients |-> Cardinality(live), TotalTopics |-> Cardinality(TopicNames),
                TotalMessages |-> 0]
    /\ shuttingDown = FALSE
    /\ hpc = "select"
    /\ hmsg = NilMsg
    /\ hfan = {}
    /\ rpc = [c \in Clients |-> IF c \in live THEN "read" ELSE "new"]
    /\ wpc = [c \in Clients |-> IF c \in live THEN "wait" ELSE "off"]
    /\ ClientInitExcept
    /\ csubs = [c \in Clients |-> IF c \in subs THEN {"t1"} ELSE {}]

\* ---- one connection, subscribed to t1, that pings and publishes to t1
InitSolo == Established({"c1"}, {"c1"})

NextSolo ==
    \/ ReadPing("c1")
    \/ ReadPublish("c1", "t1")
    \/ HubPublish("c1")
    \/ HubRingHead
    \/ HubRingSize
    \/ HubFanout("c1")
    \/ SendAck("c1")
    \/ OverflowRemove("c1")
    \/ OverflowReceive("c1")
    \/ OverflowRequeue("c1")
    \/ WriteReceive("c1")
    \/ WriteMessage("c1")
    \/ WriteAccount("c1")

SpecSolo == InitSolo /\ [][NextSolo]_vars

\* ---- a subscriber c1 that pings, and a publisher c2
SlowMsgs == 2

\* publish requests sent while topics are created and deleted
AdminMsgs == 2

\* requests a connection sends while connections come and go
ChurnReqs == 2

\* publish requests sent while a subscription is replayed
ReplayMsgs == 3

\* publish requests sent to a subscriber that falls behind
EvictMsgs == 3

\* publish requests sent while the broker shuts down
DrainMsgs == 1

InitSlow == Established({"c1", "c2"}, {"c1"})

NextSlow ==
    \/ ReadPing("c1")
    \/ (nextId <= SlowMsgs /\ ReadPublish("c2", "t1"))
    \/ HubPublish("c2")
    \/ HubRingHead
    \/ HubRingSize
    \/ HubFanout("c1")
    \/ \E c \in Clients : SendAck(c)
    \/ OverflowRemove("c1")
    \/ OverflowReceive("c1")
    \/ OverflowRequeue("c1")
    \/ sendSlowConsumerError("c1")
    \/ CloseTimer("c1")
    \/ \E c \in Clients : WriteReceive(c)
    \/ \E c \in Clients : WriteMessage(c)
    \/ \E c \in Clients : WriteAccount(c)
    \/ \E c \in Clients : ReadError(c)
    \/ \E c \in Clients : HubUnregister(c)
    \/ \E c \in Clients : WriteTick(c)

SpecSlow == InitSlow /\ [][NextSlow]_vars

\* ---- a subscriber c1 that sends no request, and a publisher c2
InitPub == Established({"c1", "c2"}, {"c1"})

NextPub ==
    \/ \E t \in TopicNames : ReadPublish("c2", t)
    \/ HubPublish("c2")
    \/ HubRingHead
    \/ HubRingSize
    \/ HubFanout("c1")
    \/ SendAck("c2")
    \/ \E c \in Clients : WriteReceive(c)
    \/ \E c \in Clients : WriteMessage(c)
    \/ \E c \in Clients : WriteAccount(c)

SpecPub == InitPub /\ [][NextPub]_vars

\* ---- a connection c1 that subscribes to t1 with replay and unsubscribes and
\* ---- whose peer reads nothing, and a publisher c2
InitReplay == Established({"c1", "c2"}, {"c1"})

NextReplay ==
    \/ \E t \in TopicNames : (nextId <= ReplayMsgs /\ ReadPublish("c2", t))
    \/ HubPublish("c2")
    \/ HubRingHead
    \/ HubRingSize
    \/ HubFanout("c1")
    \/ \E n \in LastNs : ReadSubscribe("c1", "t1", n)
    \/ HubSubscribe("c1")
    \/ ReadUnsubscribe("c1", "t1")
    \/ HubUnsubscribe("c1")
    \/ ReplayQuery("c1")
    \/ ReplaySend("c1")
    \/ \E c \in Clients : SendAck(c)
    \/ OverflowRemove("c1")
    \/ OverflowReceive("c1")
    \/ OverflowRequeue("c1")
    \/ WriteReceive("c2")
    \/ WriteMessage("c2")
    \/ WriteAccount("c2")

SpecReplay == InitReplay /\ [][NextReplay]_vars

\* ---- topics are created and deleted while c1 subscribes to and unsubscribes
\* ---- from t1 and c2 publishes to t1; the peers read nothing
InitAdmin == Established({"c1", "c2"}, {"c1"})

NextAdmin ==
    \/ \E t \in TopicNames : CreateTopic(t)
    \/ \E t \in TopicNames : DeleteTopic(t)
    \/ (dcalls["c1"] < QueueCap /\ ReadSubscribe("c1", "t1", 0))
    \/ HubSubscribe("c1")
    \/ (dcalls["c1"] < QueueCap /\ ReadUnsubscribe("c1", "t1"))
    \/ HubUnsubscribe("c1")
    \/ (nextId <= AdminMsgs /\ ReadPublish("c2", "t1"))
    \/ HubPublish("c2")
    \/ HubRingHead
    \/ HubRingSize
    \/ HubFanout("c1")
    \/ \E c \in Clients : SendAck(c)
    \/ OverflowRemove("c1")
    \/ OverflowReceive("c1")
    \/ OverflowRequeue("c1")

SpecAdmin == InitAdmin /\ [][NextAdmin]_vars

\* ---- c1 is connected and c2 connects; both subscribe to and unsubscribe from
\* ---- t1 and leave, c1 publishes to t1, and t1 is deleted and created again;
\* ---- the peers read nothing
InitChurn == Established({"c1"}, {"c1"})

NextChurn ==
    \/ CreateTopic("t1")
    \/ DeleteTopic("t1")
    \/ Accept("c2")
    \/ HubRegister("c2")
    \/ \E c \in Clients : (dcalls[c] < ChurnReqs /\ ReadSubscribe(c, "t1", 0))
    \/ \E c \in Clients : HubSubscribe(c)
    \/ \E c \in Clients : (dcalls[c] < ChurnReqs /\ ReadUnsubscribe(c, "t1"))
    \/ \E c \in Clients : HubUnsubscribe(c)
    \/ (nextId <= AdminMsgs /\ dcalls["c1"] < ChurnReqs /\ ReadPublish("c1", "t1"))
    \/ HubPublish("c1")
    \/ HubRingHead
    \/ HubRingSize
    \/ \E c \in Clients : HubFanout(c)
    \/ \E c \in Clients : SendAck(c)
    \/ \E c \in Clients : OverflowRemove(c)
    \/ \E c \in Clients : OverflowReceive(c)
    \/ \E c \in Clients : OverflowRequeue(c)
    \/ \E c \in Clients : ReadError(c)
    \/ \E c \in Clients : HubUnregister(c)

SpecChurn == InitChurn /\ [][NextChurn]_vars

\* ---- Shutdown is called on a broker where c1 is subscribed to t1, sends
\* ---- requests (each after its peer has read the frames of the one before,
\* ---- and DrainMsgs publishes) and is written to, while c2
\* ---- connects and pings and its peer reads nothing; no peer leaves, so a
\* ---- read fails only on a connection the broker has closed
Quiet(c) == send[c] = <<>> /\ queueSize[c] = 0 /\ wpc[c] = "wait"

InitDrain == Established({"c1"}, {"c1"})

NextDrain ==
    \/ ShutdownMark
    \/ ShutdownSignal
    \/ gracefulShutdown
    \/ DrainTick
    \/ DrainTakeTick
    \/ DrainPoll
    \/ DrainClose
    \/ DrainTimeout
    \/ Accept("c2")
    \/ HubRegister("c2")
    \/ ReadPing("c2")
    \/ OverflowRemove("c2")
    \/ OverflowReceive("c2")
    \/ OverflowRequeue("c2")
    \/ (Quiet("c1") /\ ReadSubscribe("c1", "t1", 0))
    \/ HubSubscribe("c1")
    \/ (Quiet("c1") /\ ReadUnsubscribe("c1", "t1"))
    \/ HubUnsubscribe("c1")
    \/ (Quiet("c1") /\ nextId <= DrainMsgs /\ ReadPublish("c1", "t1"))
    \/ HubPublish("c1")
    \/ HubRingHead
    \/ HubRingSize
    \/ HubFanout("c1")
    \/ SendAck("c1")
    \/ WriteReceive("c1")
    \/ WriteMessage("c1")
    \/ WriteAccount("c1")
    \/ WriteTick("c1")
    \/ \E c \in Clients : (connClosed[c] /\ ReadError(c))
    \/ \E c \in Clients : HubUnregister(c)

SpecDrain == InitDrain /\ [][NextDrain]_vars

\* the steps of NextDrain that belong to the Hub goroutine outside Run's select
HubStep ==
    \/ HubRingHead
    \/ HubRingSize
    \/ \E c \in Clients : HubFanout(c)
    \/ DrainTakeTick
    \/ DrainPoll
    \/ DrainClose
    \/ DrainTimeout

\* the steps with which a connection's goroutines continue on their own
PumpStep(c) ==
    \/ SendAck(c)
    \/ OverflowRemove(c)
    \/ OverflowReceive(c)
    \/ OverflowRequeue(c)
    \/ WriteReceive(c)
    \/ WriteMessage(c)
    \/ WriteAccount(c)
    \/ WriteTick(c)
    \/ (connClosed[c] /\ ReadError(c))

\* Run's select takes one of its ready routing cases
HubServe ==
    \E c \in Clients :
        \/ HubRegister(c)
        \/ HubUnregister(c)
        \/ HubSubscribe(c)
        \/ HubUnsubscribe(c)
        \/ HubPublish(c)

\* SpecDrain with the scheduling the Go runtime gives: every goroutine that can
\* continue does; Run's select, choosing at random among its ready cases, does
\* not leave the closed shutdown channel out for ever; time passes
SpecDrainFair ==
    /\ SpecDrain
    /\ WF_vars(ShutdownSignal)
    /\ WF_vars(HubServe /\ NextDrain)
    /\ SF_vars(gracefulShutdown)
    /\ WF_vars(HubStep)
    /\ WF_vars(DrainTick)
    /\ \A c \in Clients : WF_vars(PumpStep(c) /\ NextDrain)

\* ---- c1 sends invalid requests, pings and publishes to t1 and its peer reads
\* ---- nothing; c2 is subscribed to t1 and is written to
InitBad == Established({"c1", "c2"}, {"c2"})

NextBad ==
    \/ ReadBadRequest("c1")
    \/ ReadPing("c1")
    \/ (nextId <= SlowMsgs /\ ReadPublish("c1", "t1"))
    \/ HubPublish("c1")
    \/ HubRingHead
    \/ HubRingSize
    \/ HubFanout("c2")
    \/ SendAck("c1")
    \/ OverflowRemove("c1")
    \/ OverflowReceive("c1")
    \/ OverflowRequeue("c1")
    \/ WriteReceive("c2")
    \/ WriteMessage("c2")
    \/ WriteAccount("c2")

SpecBad == InitBad /\ [][NextBad]_vars

\* ---- a subscriber c1 that pings and is written to, and a publisher c2 that
\* ---- goes on publishing after c1 has been marked slow-consumer
InitEvict == Established({"c1", "c2"}, {"c1"})

NextEvict ==
    \/ ReadPing("c1")
    \/ (nextId <= EvictMsgs /\ Quiet("c2") /\ ReadPublish("c2", "t1"))
    \/ HubPublish("c2")
    \/ HubRingHead
    \/ HubRingSize
    \/ HubFanout("c1")
    \/ SendAck("c2")
    \/ OverflowRemove("c1")
    \/ OverflowReceive("c1")
    \/ OverflowRequeue("c1")
    \/ sendSlowConsumerError("c1")
    \/ CloseTimer("c1")
    \/ \E c \in Clients : WriteReceive(c)
    \/ \E c \in Clients : WriteMessage(c)
    \/ \E c \in Clients : WriteAccount(c)

SpecEvict == InitEvict /\ [][NextEvict]_vars

\* ---- a subscriber c1 that subscribes to t1 again with replay, pings, falls
\* ---- behind and leaves, and a publisher c2 subscribed to t1 as well
LeaveMsgs == 2

InitLeave == Established({"c1", "c2"}, {"c1", "c2"})

NextLeave ==
    \/ ReadPing("c1")
    \/ (dcalls["c1"] = 0 /\ ReadSubscribe("c1", "t1", 1))
    \/ HubSubscribe("c1")
    \/ ReplayQuery("c1")
    \/ ReplaySend("c1")
    \/ (nextId <= LeaveMsgs /\ ReadPublish("c2", "t1"))
    \/ HubPublish("c2")
    \/ HubRingHead
    \/ HubRingSize
    \/ \E c \in Clients : HubFanout(c)
    \/ \E c \in Clients : SendAck(c)
    \/ OverflowRemove("c1")
    \/ OverflowReceive("c1")
    \/ OverflowRequeue("c1")
    \/ sendSlowConsumerError("c1")
    \/ CloseTimer("c1")
    \/ WriteReceive("c1")
    \/ WriteMessage("c1")
    \/ WriteAccount("c1")
    \/ ReadError("c1")
    \/ HubUnregister("c1")

SpecLeave == InitLeave /\ [][NextLeave]_vars

\* ---- c1 is connected and c2 connects while Shutdown may be called; both
\* ---- subscribe to and unsubscribe from t1 and leave; the peers read nothing
JoinReqs == 2

InitJoin == Established({"c1"}, {"c1"})

NextJoin ==
    \/ ShutdownMark
    \/ ShutdownSignal
    \/ gracefulShutdown
    \/ DrainTick
    \/ DrainTakeTick
    \/ DrainPoll
    \/ DrainClose
    \/ DrainTimeout
    \/ Accept("c2")
    \/ HubRegister("c2")
    \/ \E c \in Clients : (dcalls[c] < JoinReqs /\ ReadSubscribe(c, "t1", 0))
    \/ \E c \in Clients : HubSubscribe(c)
    \/ \E c \in Clients : (dcalls[c] < JoinReqs /\ ReadUnsubscribe(c, "t1"))
    \/ \E c \in Clients : HubUnsubscribe(c)
    \/ \E c \in Clients : SendAck(c)
    \/ \E c \in Clients : ReadError(c)
    \/ \E c \in Clients : HubUnregister(c)

SpecJoin == InitJoin /\ [][NextJoin]_vars

\* ---- c2 is subscribed to t1 and publishes to it while c1, not subscribed,
\* ---- subscribes to t1 with replay (and again while its handlers have sent
\* ---- it fewer than LateCalls frames); both are written to
LateMsgs == 2
LateCalls == 2

InitLate == Established({"c1", "c2"}, {"c2"})

NextLate ==
    \/ (nextId <= LateMsgs /\ ReadPublish("c2", "t1"))
    \/ HubPublish("c2")
    \/ HubRingHead
    \/ HubRingSize
    \/ \E c \in Clients : HubFanout(c)
    \/ \E n \in LastNs \ {0} : (dcalls["c1"] < LateCalls /\ ReadSubscribe("c1", "t1", n))
    \/ HubSubscribe("c1")
    \/ ReplayQuery("c1")
    \/ ReplaySend("c1")
    \/ \E c \in Clients : SendAck(c)
    \/ \E c \in Clients : WriteReceive(c)
    \/ \E c \in Clients : WriteMessage(c)
    \/ \E c \in Clients : WriteAccount(c)
    \/ \E c \in Clients : OverflowRemove(c)
    \/ \E c \in Clients : OverflowReceive(c)
    \/ \E c \in Clients : OverflowRequeue(c)

SpecLate == InitLate /\ [][NextLate]_vars

\* SpecEvict with the Hub goroutine kept running by the Go scheduler; nothing
\* is assumed of the readers, the writers and the peers
SpecEvictFair ==
    /\ SpecEvict
    /\ WF_vars(HubRingHead)
    /\ WF_vars(HubRingSize)
    /\ WF_vars(HubFanout("c1"))

\* SpecEvict with the reader goroutine kept running inside sendWithBackpressure
\* by the Go scheduler; nothing is assumed of the Hub, the writers and the peers
SpecEvictLive ==
    /\ SpecEvict
    /\ WF_vars(OverflowRemove("c1"))
    /\ WF_vars(OverflowReceive("c1"))
    /\ WF_vars(OverflowRequeue("c1"))
    /\ WF_vars(sendSlowConsumerError("c1"))

\* ------------------------------------------------------------------ claims
Min2(a, b) == IF a < b THEN a ELSE b

\* the last m elements of a sequence
LastOf(seq, m) == SubSeq(seq, Len(seq) - m + 1, Len(seq))

\* C1: every publish the Hub processes on topic T enqueues its event frame on
\* the queue of each connection that is in T's subscriber set when the publish
\* is processed (the snapshot), and on no other connection's queue.
C1_FanoutReachesSnapshot ==
    [][/\ (hpc = "ring_size" /\ hpc' = "fanout") => hfan' = subscriptions[hmsg.Topic]
       /\ (hpc = "fanout" /\ hfan' # hfan) =>
             \A c \in Clients :
                 IF c \in hfan \ hfan'
                 THEN send'[c] = Append(send[c], createEventMessageBytes(hmsg))
                 ELSE send'[c] = send[c]]_vars

\* C2: sendWithBackpressure on a full queue, with no other goroutine touching
\* the queue meanwhile, leaves the previous frames minus the oldest followed by
\* the new frame, and queueSize as it was.
C2_OverflowKeepsNewFrame ==
    [][\A c \in Clients :
          (dpc[c] = "ov3" /\ dpc'[c] = "none" /\ ~contended[c]) =>
              /\ send'[c] = Append(Tail(dpre[c].q), dframe[c])
              /\ queueSize'[c] = dpre[c].n]_vars

\* C3: after QueueCap + 1 publishes to a subscriber that consumes nothing (and
\* that was sent nothing else), the subscriber holds the event frames of the
\* newest QueueCap messages, or it is marked slow-consumer.
C3_HoldsNewest ==
    \A c \in Clients :
        (hpc = "select" /\ ~dequeued[c] /\ dcalls[c] = 0 /\ Len(fanned[c]) = QueueCap + 1) =>
            \/ slowConsumer[c]
            \/ send[c] = [i \in 1..QueueCap |-> createEventMessageBytes(fanned[c][i + 1])]

\* C4: queueSize never exceeds the capacity of the outbound queue.
C4_QueueSizeBounded == \A c \in Clients : queueSize[c] <= QueueCap

\* C5: a connection that is never drained and has been sent more than QueueCap
\* frames through sendWithBackpressure is slow-consumer, and its transport is
\* not closed before a SLOW_CONSUMER frame was enqueued.
C5_UndrainedBecomesSlow ==
    \A c \in Clients :
        (~dequeued[c] /\ dcalls[c] > QueueCap /\ dpc[c] = "none") =>
            /\ slowConsumer[c]
            /\ connClosed[c] => slowErrs[c] >= 1

C7_SlowConsumerIsTerminal ==
    /\ [][\A c \in Clients : /\ slowConsumer[c] => slowConsumer'[c]
                             /\ connClosed[c] => connClosed'[c]]_vars
    /\ [](\A c \in Clients : /\ slowErrs[c] <= 1
                             /\ dpc[c] = "slowerr" => ENABLED sendSlowConsumerError(c))
    /\ \A c \in Clients : slowConsumer[c] ~> connClosed[c]

\* a slow-consumer connection whose SLOW_CONSUMER frame was enqueued and whose
\* transport has been closed
C7_Witness == \E c \in Clients : slowConsumer[c] /\ slowErrs[c] = 1 /\ connClosed[c]

\* the goroutines the Go scheduler keeps running: the reader inside
\* sendSlowConsumerError and the goroutine that sleeps and closes the connection
SpecSlowFair ==
    /\ SpecSlow
    /\ \A c \in Clients : WF_vars(sendSlowConsumerError(c)) /\ WF_vars(CloseTimer(c))

\* the number of ring appends on topic t that have finished (the slot, the
\* head and the size all written)
Finished(t) ==
    IF HubInRing /\ hmsg.Topic = t /\ t \in DOMAIN topics
    THEN Len(appended[t]) - 1
    ELSE Len(appended[t])

\* what recent(n) is to return for a ring to which the first k of t's stored
\* envelopes have been appended
Newest(t, k, n) == LastOf(SubSeq(appended[t], 1, k), Min2(n, Min2(k, RingCap)))

\* C8: a GetRecentMessages(t, n) call made by handleSubscribe (n >= 1) returns
\* the last min(n, k, RingCap) envelopes appended to t, oldest first, where k
\* counts the appends finished before the call, or those and the one in
\* progress.
C8_RecentIsNewestInOrder ==
    [][\A c \in Clients :
          (rpc[c] = "replay" /\ rpc'[c] # "replay" /\ rreq[c].topic \in DOMAIN topics) =>
              \E k \in Finished(rreq[c].topic)..Len(appended[rreq[c].topic]) :
                  rreplay'[c] = Newest(rreq[c].topic, k, rreq[c].lastN)]_vars

\* the current size of a topic's ring (0 for a topic that does not exist)
SizeOf(t) == IF t \in DOMAIN topics THEN topics[t].RingSize ELSE 0

\* C9: a GetRecentMessages(t, n) call returns without reading outside the ring;
\* the result is empty when the topic does not exist or its size is 0, never
\* longer than the current size, and, for n above the current size, exactly the
\* ring's contents (those before or those after an append in progress).
C9_RecentClamps ==
    [][\A c \in Clients :
          (rpc[c] = "replay" /\ rpc'[c] # "replay") =>
              LET t == rreq[c].topic
                  n == rreq[c].lastN
              IN  /\ t \in DOMAIN topics =>
                         \A i \in 0..(RecentCount(topics[t], n) - 1) :
                             RecentPos(topics[t], RecentCount(topics[t], n), i)
                                 \in 0..(RingCap - 1)
                  /\ SizeOf(t) = 0 => rreplay'[c] = <<>>
                  /\ Len(rreplay'[c]) <= SizeOf(t)
                  /\ (t \in DOMAIN topics /\ n > SizeOf(t)) =>
                         \E k \in Finished(t)..Len(appended[t]) :
                             rreplay'[c] = Newest(t, k, RingCap)]_vars

\* C10: a publish to a topic that is in the registry but has no subscriber-set
\* entry stores the envelope in the topic's ring (recent returns it) and
\* enqueues nothing.
C10_StoredWithoutSubscribers ==
    [][\A c \in Clients :
          (/\ rpc[c] = "pub_submit" /\ rpc'[c] = "ack"
           /\ rreq[c].topic \in DOMAIN topics
           /\ rreq[c].topic \notin DOMAIN subscriptions) =>
              /\ RecentOf(topics', rreq[c].topic, 1) = <<rreq[c].msg>>
              /\ send' = send]_vars

\* what a replay of last_n = n is to send when the first k messages published
\* to t are the ones buffered
Backlog(t, k, n) == LastOf(SubSeq(published[t], 1, k), Min2(n, Min2(k, RingCap)))

\* C11: when handleSubscribe with last_n > 0 on an existing topic enqueues its
\* ack, it has sent the event frames of the last min(last_n, buffered) messages
\* published to the topic, oldest first, where buffered counts the messages
\* published before the subscribe (and possibly some published during it).
C11_ReplayBeforeAck ==
    [][\A c \in Clients :
          (/\ rpc[c] = "ack" /\ rpc'[c] = "read"
           /\ rreq[c].type = "subscribe" /\ rreq[c].lastN > 0
           /\ rreq[c].topic \in DOMAIN topics) =>
              \E k \in replayed[c].base..Len(published[rreq[c].topic]) :
                  replayed[c].msgs = Backlog(rreq[c].topic, k, rreq[c].lastN)]_vars

\* the administrative call a step has just made (the entry it added to the log)
Called == adminLog'[Len(adminLog')]

\* whether name is in the registry after the first i logged calls, when the
\* registry held the names of TopicNames at the start
RECURSIVE ExistsAfter(_, _)
ExistsAfter(name, i) ==
    IF i = 0 THEN name \in TopicNames
    ELSE IF adminLog[i].name = name /\ adminLog[i].err = "nil"
         THEN adminLog[i].op = "create"
         ELSE ExistsAfter(name, i - 1)

\* C12: CreateTopic of a name in the registry returns ErrTopicExists and leaves
\* the registry unchanged; otherwise it adds a topic with message count 0,
\* subscriber count 0 and an empty ring and leaves the other topics alone. In
\* any sequence of calls a create succeeds exactly when the name is absent at
\* that point, and the registry lists exactly the names created and not deleted.
C12_CreateTopic ==
    /\ [][(Len(adminLog') > Len(adminLog) /\ Called.op = "create") =>
              IF Called.name \in DOMAIN topics
              THEN Called.err = "ErrTopicExists" /\ topics' = topics
              ELSE /\ Called.err = "nil"
                   /\ DOMAIN topics' = DOMAIN topics \cup {Called.name}
                   /\ topics'[Called.name].MessageCount = 0
                   /\ topics'[Called.name].SubscriberCount = 0
                   /\ topics'[Called.name].RingSize = 0
                   /\ RecentOf(topics', Called.name, 0) = <<>>
                   /\ \A t \in DOMAIN topics : topics'[t] = topics[t]]_vars
    /\ [](/\ \A i \in 1..Len(adminLog) :
                adminLog[i].op = "create" =>
                    (adminLog[i].err = "nil" <=> ~ExistsAfter(adminLog[i].name, i - 1))
          /\ DOMAIN topics = {t \in TopicNames : ExistsAfter(t, Len(adminLog))})

\* a create of an absent name has succeeded and a create of a name whose topic
\* holds a message has failed
C12_Witness ==
    /\ \E i \in 1..Len(adminLog) : adminLog[i].op = "create" /\ adminLog[i].err = "nil"
    /\ \E i \in 1..Len(adminLog) :
           /\ adminLog[i].op = "create" /\ adminLog[i].err = "ErrTopicExists"
           /\ adminLog[i].name \in DOMAIN topics
           /\ topics[adminLog[i].name].MessageCount > 0

Churned(c) ==
    /\ rpc[c] \in {"reg_submit", "unreg_submit", "sub_submit", "unsub_submit"}
    /\ rpc'[c] # rpc[c]

C15_NoOpWhenAbsent ==
    [][\A c \in Clients :
          /\ (/\ rpc[c] = "unsub_submit" /\ rpc'[c] = "ack"
              /\ ~(rreq[c].topic \in DOMAIN subscriptions /\ c \in subscriptions[rreq[c].topic])) =>
                 /\ subscriptions' = subscriptions
                 /\ stats' = stats
                 /\ \A t \in DOMAIN topics :
                        topics'[t].SubscriberCount = topics[t].SubscriberCount
          /\ (rpc[c] = "unreg_submit" /\ rpc'[c] = "done" /\ c \notin clients) =>
                 /\ clients' = clients /\ sendClosed' = sendClosed
                 /\ subscriptions' = subscriptions /\ topics' = topics
                 /\ stats' = stats]_vars

\* C16: once Shutdown has set the draining flag it stays set and the live set
\* gains no connection; a register the Hub processes while the flag is set
\* closes the connection's transport and leaves the live set and TotalClients
\* unchanged.
C16_DrainingRefusesRegister ==
    [][/\ shuttingDown => shuttingDown'
       /\ shuttingDown => clients' \subseteq clients
       /\ \A c \in Clients :
            (shuttingDown /\ rpc[c] = "reg_submit" /\ rpc'[c] = "read") =>
                /\ connClosed'[c]
                /\ clients' = clients
                /\ stats'.TotalClients = stats.TotalClients]_vars

\* c2's register was processed after Shutdown had set the flag
C16_Witness ==
    /\ shuttingDown
    /\ rpc["c2"] = "read"
    /\ "c2" \notin clients
    /\ connClosed["c2"]

Requests == {"pub_submit", "sub_submit", "unsub_submit"}

\* C17: a publish, subscribe or unsubscribe request that a connection submits
\* while the broker is draining and has not yet force-closed is eventually
\* taken by the Hub, so the connection's handler gets past the submission.
C17_DrainingServesRequests ==
    \A c \in Clients :
        (shuttingDown /\ hpc # "returned" /\ rpc[c] \in Requests) ~> (rpc[c] \notin Requests)

\* C18: after the force-close of shutdown, a live connection whose reader
\* submits an unregister because its transport was closed has the request
\* processed: the connection eventually leaves the live set and its outbound
\* queue is closed.
C18_UnregisterAfterForceClose ==
    \A c \in Clients :
        (hpc = "returned" /\ c \in clients /\ rpc[c] = "unreg_submit") ~>
            (c \notin clients /\ sendClosed[c])

\* C19: once Shutdown has been called the drain ends: the Hub eventually
\* returns from Run, and when it has returned the transport of every live
\* connection has been closed.
C19_DrainEnds ==
    /\ (spc # "idle") ~> (hpc = "returned")
    /\ [](hpc = "returned" => \A c \in clients : connClosed[c])

\* Run has returned by the timeout, with c2 registered and its queue never read
C19_Witness ==
    /\ hpc = "returned"
    /\ elapsed = DrainTicks
    /\ "c2" \in clients
    /\ queueSize["c2"] > 0

\* c2 is live and its queue, which nothing reads, holds frames
Stalled == "c2" \in clients /\ queueSize["c2"] > 0

\* with a connection whose queue_len stays above zero (c2's, once it is above
\* zero, while the drain loop waits or polls), the force-close comes when the
\* timeout elapses: not before it, and the drain does end
ClosedAtTimeout ==
    /\ []((hpc \in {"drain", "poll"} /\ Stalled) => [](hpc = "returned" => elapsed = DrainTicks))
    /\ (spc # "idle" /\ Stalled) ~> (hpc = "returned")

\* C20 as stated: a drain triggered while every live connection has queue_len
\* zero force-closes before one poll interval has elapsed; with a connection
\* whose queue_len stays above zero the force-close comes exactly when the
\* timeout elapses.
C20_ClosesBeforeFirstPoll ==
    /\ [](drainIdle /\ hpc = "returned" => elapsed < 1)
    /\ ClosedAtTimeout

\* C20, amended: no force-close comes before one poll interval has elapsed; a
\* drain triggered while every live connection has queue_len zero, the queues
\* still empty at the first poll, force-closes at that poll, one poll interval
\* after it began; with a connection whose queue_len stays above zero the
\* force-close comes exactly when the timeout elapses.
C20_ClosesAtFirstPoll ==
    /\ [](hpc = "returned" => elapsed >= 1)
    /\ [][(/\ drainIdle /\ hpc = "poll" /\ elapsed = 1 /\ hpc' # "poll"
           /\ \A c \in clients : queueSize[c] = 0) => hpc' = "close"]_vars
    /\ [][(hpc = "close" /\ hpc' # "close") =>
              (hpc' = "returned" /\ elapsed' = elapsed /\ \A c \in clients : connClosed'[c])]_vars
    /\ ClosedAtTimeout

\* a drain that began with c1's queue empty has force-closed c1 at the first poll
C20_Witness ==
    /\ drainIdle
    /\ hpc = "returned"
    /\ elapsed = 1
    /\ "c1" \in clients
    /\ connClosed["c1"]

\* C21: in every subscriber's outbound queue the event frames of one topic
\* stand in publish order: no frame of an earlier publish is behind a frame of
\* a later publish of the same topic.
C21_QueueKeepsPublishOrder ==
    \A c \in Clients : \A i, j \in 1..Len(send[c]) :
        (/\ i < j
         /\ send[c][i].type = "event" /\ send[c][j].type = "event"
         /\ send[c][i].topic = send[c][j].topic) =>
            send[c][i].id <= send[c][j].id

BadRequest == createErrorMessageBytes("BAD_REQUEST")

\* C22: a request that fails validation submits nothing to the Hub and changes
\* neither the connection's subscription set nor the Hub's subscriber sets,
\* topics and counters, and it is answered: when the sendWithBackpressure call
\* for its BAD_REQUEST frame has returned, that frame is the newest frame of the
\* offending connection's queue, and no other connection's queue has changed.
C22_BadRequestAnswered ==
    [][\A c \in Clients :
          LET fast == dpc[c] = "none" /\ dpc'[c] = "none" /\ dcalls'[c] # dcalls[c]
                      /\ rpc[c] = "read" /\ rpc'[c] = "read"
                      /\ send'[c] = Append(send[c], BadRequest)
              slow == dpc[c] # "none" /\ dpc'[c] = "none" /\ dframe[c] = BadRequest
          IN  /\ (fast \/ (dframe'[c] = BadRequest /\ dframe[c] # BadRequest)) =>
                    /\ rpc' = rpc /\ csubs' = csubs
                    /\ subscriptions' = subscriptions /\ topics' = topics /\ stats' = stats
                    /\ \A d \in Clients \ {c} : send'[d] = send[d]
              /\ slow =>
                    /\ Len(send'[c]) > 0
                    /\ send'[c][Len(send'[c])] = BadRequest
                    /\ \A d \in Clients \ {c} : send'[d] = send[d]]_vars

\* C23: a publish the Hub takes for a topic name that is not in h.topics ends
\* at once, and while the name is not in h.topics the publish enqueues no frame
\* and leaves TotalMessages alone.
C23_PublishToMissingTopic ==
    [][/\ \A c \in Clients :
            (/\ rpc[c] = "pub_submit" /\ rpc'[c] = "ack"
             /\ rreq[c].msg.Topic \notin DOMAIN topics) =>
                (hpc' = "select" /\ stats' = stats /\ send' = send)
       /\ (hpc = "ring_size" /\ hpc' # hpc /\ hmsg.Topic \notin DOMAIN topics) =>
                stats' = stats
       /\ (hpc = "fanout" /\ hfan' # hfan /\ hmsg.Topic \notin DOMAIN topics) =>
                send' = send]_vars

\* C24: a live connection with no subscribe or unsubscribe request in flight is
\* in the Hub's subscriber set of a topic exactly when the topic is in its own
\* c.subscriptions.
C24_SubscriptionsAgree ==
    \A c \in clients :
        rpc[c] \notin {"sub_submit", "unsub_submit"} =>
            \A t \in TopicNames :
                (t \in DOMAIN subscriptions /\ c \in subscriptions[t]) <=> (t \in csubs[c])

\* C25: once a connection is marked slow-consumer the only frame any step
\* still puts on its outbound queue is the SLOW_CONSUMER error frame, and that
\* one once.
C25_SlowConsumerGetsNothing ==
    [][\A c \in Clients :
          (slowConsumer[c] /\ send'[c] # send[c] /\ Len(send'[c]) >= Len(send[c])) =>
              /\ send'[c] = Append(send[c], createErrorMessageBytes("SLOW_CONSUMER"))
              /\ slowErrs[c] = 0]_vars

\* C26: a publish the Hub has taken from h.publish completes, whatever the
\* state of the subscribers' queues: the Hub comes back to Run's select.
C26_FanoutCompletes ==
    (hpc \in {"ring_head", "ring_size", "fanout"}) ~> (hpc = "select" /\ ~panicked)

\* the Hub is back at its select after fanning EvictMsgs publishes out to c1,
\* which was marked slow-consumer and whose queue is full
C26_Witness ==
    /\ hpc = "select"
    /\ Len(fanned["c1"]) = EvictMsgs
    /\ slowConsumer["c1"]
    /\ Len(send["c1"]) = QueueCap

\* C27: sendWithBackpressure never waits: the receive of handleQueueOverflow's
\* inner select always finds a frame (or the queue closed), and every call that
\* entered the overflow handling returns and releases c.mu, whatever WritePump
\* and the fan-out do meanwhile.
C27_DeliverReturns ==
    /\ [](\A c \in Clients : dpc[c] = "ov2" => (Len(send[c]) > 0 \/ sendClosed[c]))
    /\ \A c \in Clients : (dpc[c] # "none") ~> (dpc[c] = "none")

\* c1's overflow handling ended although WritePump took a frame and the fan-out
\* added one while it ran
C27_Witness ==
    /\ dpc["c1"] = "none"
    /\ dcalls["c1"] > QueueCap
    /\ dequeued["c1"]
    /\ slowConsumer["c1"]

\* the number of connections in topic t's subscriber set
SetSize(t) == IF t \in DOMAIN subscriptions THEN Cardinality(subscriptions[t]) ELSE 0

\* C28: every topic's SubscriberCount is the size of its subscriber set, zero
\* when there is none.
C28_SubscriberCountIsSetSize ==
    \A t \in DOMAIN topics : topics[t].SubscriberCount = SetSize(t)

C30_LateRegisterRejected ==
    \A c \in Clients :
        (spc = "closed" /\ rpc[c] = "reg_submit") ~> (rpc[c] # "reg_submit" /\ connClosed[c])

\* C31: during drain the Hub closes the connections only after a poll that
\* found queueSize zero for every live client, or when the timeout has elapsed:
\* a poll that finds some live client with queueSize above zero goes back to
\* waiting, and no other step of the drain loop closes a connection.
C31_ForceCloseOnlyFlushedOrTimeout ==
    /\ [][(hpc' = "returned" /\ hpc # "returned") =>
              \/ hpc = "drain" /\ elapsed >= DrainTicks
              \/ hpc = "close"]_vars
    /\ [][(hpc' = "close" /\ hpc # "close") =>
              (hpc = "poll" /\ \A c \in clients : queueSize[c] <= 0)]_vars
    /\ [][(hpc \in {"drain", "poll"} /\ hpc' # hpc /\ hpc' # "returned") =>
              connClosed' = connClosed]_vars

\* the drain began with a frame queued for c1, a poll found it and went back to
\* waiting, and a later poll, before the timeout, found the queues flushed
C31_Witness ==
    /\ hpc = "returned"
    /\ ~drainIdle
    /\ elapsed >= 2
    /\ elapsed < DrainTicks
    /\ "c1" \in clients
    /\ connClosed["c1"]

\* the positions at which a connection's goroutine waits on a send to one of
\* the Hub's channels
Submits == {"reg_submit", "unreg_submit", "pub_submit", "sub_submit", "unsub_submit"}

\* C32: the Hub takes one request at a time, at Run's select only: while
\* publishMessage runs no request is taken and no connection is registered or
\* unregistered; and the requests of one connection are applied in the order
\* it submitted them, so the Hub never holds a connection in the subscriber set
\* of a topic the connection has, by its last request, unsubscribed from.
C32_OneAtATimeInOrder ==
    /\ [][\A c \in Clients :
            (rpc[c] \in Submits /\ rpc'[c] # rpc[c]) =>
                (/\ hpc = "select"
                 /\ hpc' \in {"select", "ring_head"}
                 /\ \A d \in Clients \ {c} : rpc[d] \in Submits => rpc'[d] = rpc[d])]_vars
    /\ [][(hpc \in {"ring_head", "ring_size", "fanout"}) =>
            (/\ clients' = clients
             /\ sendClosed' = sendClosed
             /\ \A c \in Clients : rpc[c] \in Submits => rpc'[c] = rpc[c])]_vars
    /\ [](\A c \in Clients : \A t \in DOMAIN subscriptions :
            (c \in subscriptions[t] /\ rpc[c] \notin {"sub_submit", "unsub_submit"}) =>
                t \in csubs[c])

\* c2 waits on h.subscribe or h.unsubscribe while the Hub fans c1's publish out
C32_Witness ==
    /\ hpc = "fanout"
    /\ "c2" \in clients
    /\ rpc["c2"] \in {"sub_submit", "unsub_submit"}
    /\ rpc["c1"] = "ack"

\* C33: no administrative call overlaps the Hub's update of a topic: while
\* publishMessage is between its writes of the ring slot, RingHead and RingSize,
\* no GetRecentMessages call reads the topics and no CreateTopic or DeleteTopic
\* call writes them.
C33_AdminExcludesRingUpdate ==
    /\ [][\A c \in Clients : (rpc[c] = "replay" /\ rpc'[c] # "replay") => ~HubInRing]_vars
    /\ [][(adminLog' # adminLog) => ~HubInRing]_vars

\* the topics of the Topic Registry that have at least one subscriber
Subscribed == {t \in DOMAIN topics : t \in DOMAIN subscriptions /\ subscriptions[t] # {}}

\* C34: GetStats reports the number of topics, the number of live connections
\* and the number of topics with at least one subscriber; total_messages grows
\* by one with each publish that found a subscriber set and changes at no other
\* step; with no connection, no subscriber set and no publish the four are
\* (number of topics, 0, 0, 0); total_messages and a topic's message_count
\* never decrease.
C34_StatsAreCounts ==
    /\ [](GetStats.TotalTopics = Cardinality(DOMAIN topics))
    /\ [](GetStats.TotalClients = Cardinality(clients))
    /\ [](GetStats.ActiveTopics = Cardinality(Subscribed))
    /\ []((clients = {} /\ DOMAIN subscriptions = {} /\ nextId = 1) =>
            GetStats = [TotalClients |-> 0, TotalTopics |-> Cardinality(DOMAIN topics),
                        TotalMessages |-> 0, ActiveTopics |-> 0])
    /\ [][(hpc = "ring_size" /\ hpc' # "ring_size") =>
            stats'.TotalMessages = stats.TotalMessages + 1]_vars
    /\ [][(stats'.TotalMessages # stats.TotalMessages) => hpc = "ring_size"]_vars
    /\ [][\A t \in DOMAIN topics \cap DOMAIN topics' :
            topics'[t].MessageCount >= topics[t].MessageCount]_vars

\* C35: no frame is ever enqueued on an outbound queue that has been closed:
\* no send on a closed channel panics the process, and once c.send is closed no
\* step of the Hub, of the connection's reader or of its overflow handling
\* appends a frame to it (the writer may still take frames out)
C35_NoSendOnClosedQueue ==
    /\ [](~panicked)
    /\ [][\A c \in Clients :
             sendClosed[c] =>
                 /\ sendClosed'[c]
                 /\ send'[c] = send[c] \/ send'[c] = Tail(send[c])]_vars

\* c1 has left (its queue is closed, frames still in it) while the Hub fans
\* out a later publish on the topic c1 was subscribed to
C35_Witness ==
    /\ sendClosed["c1"]
    /\ Len(send["c1"]) > 0
    /\ \A t \in DOMAIN subscriptions : "c1" \notin subscriptions[t]
    /\ hpc = "fanout"
    /\ ~panicked

\* frames WritePump has taken from c.send and not yet accounted for in
\* c.queueSize
InWriter(c) == IF wpc[c] \in {"write", "dec"} THEN 1 ELSE 0

\* C36: for every connection, queue_len is never negative and equals the
\* number of frames in its outbound queue, plus at most one frame the writer
\* has dequeued and not yet accounted for; so when the drain poll sees
\* queue_len = 0 for every connection, no outbound queue holds a frame
C36_QueueLenCountsFrames ==
    /\ [](\A c \in Clients :
             /\ queueSize[c] >= 0
             /\ queueSize[c] >= Len(send[c])
             /\ queueSize[c] <= Len(send[c]) + InWriter(c))
    /\ [][(hpc = "poll" /\ hpc' = "close") =>
             \A c \in clients : Len(send[c]) = 0]_vars

\* C37: every key of the Subscription Registry (h.subscriptions) is the name of
\* a topic in the Topic Registry (h.topics), so active_topics never exceeds
\* total_topics, after any sequence of create_topic, delete_topic, subscribe,
\* unsubscribe and unregister
C37_SubscriptionKeysAreTopics ==
    /\ DOMAIN subscriptions \subseteq DOMAIN topics
    /\ GetStats.ActiveTopics <= GetStats.TotalTopics

EventIds(q) == [i \in 1..Len(q) |-> IF q[i].type = "event" THEN q[i].id ELSE 0]

\* no two entries of a sequence of messages are the same message
NoRepeat(ms) == \A i, j \in 1..Len(ms) : i # j => ms[i] # ms[j]

\* every frame the connection's handlers have sent it so far is a replay event
\* of the subscribe under way: that subscribe is its first request
FirstReplay(c) == dcalls[c] = Len(replayed[c].msgs)

\* C39, as stated: a connection that subscribes with last_n > 0 is never sent
\* the same published message twice, as a live event and as a replay event
C39_NeverSentTwice ==
    \A c \in Clients : \A i, j \in 1..Len(send[c]) :
        (i # j /\ EventIds(send[c])[i] # 0) => EventIds(send[c])[i] # EventIds(send[c])[j]

\* C39: a connection that subscribes with last_n > 0 is sent a published
\* message at most once as a live event and at most once among the replay
\* events of one subscribe request (a message published while the subscribe
\* is under way can be sent as both), so during its first subscribe its queue
\* never holds three events of one message
C39_OnceLiveOncePerReplay ==
    \A c \in Clients :
        /\ NoRepeat(fanned[c])
        /\ NoRepeat(replayed[c].msgs)
        /\ \A i, j, k \in 1..Len(send[c]) :
               (i < j /\ j < k /\ FirstReplay(c) /\ EventIds(send[c])[i] # 0) =>
                   ~(EventIds(send[c])[i] = EventIds(send[c])[j]
                     /\ EventIds(send[c])[j] = EventIds(send[c])[k])

\* c1's first subscribe is under way; a message published after c1 sent it is
\* in c1's queue twice, once from the fan-out and once from the replay
C39_Witness ==
    /\ FirstReplay("c1")
    /\ rpc["c1"] = "ack"
    /\ \E i \in 1..Len(published["t1"]) :
          /\ i > replayed["c1"].base
          /\ \E k \in 1..Len(fanned["c1"]) : fanned["c1"][k] = published["t1"][i]
          /\ \E k \in 1..Len(replayed["c1"].msgs) :
                replayed["c1"].msgs[k] = published["t1"][i]
          /\ Cardinality({k \in 1..Len(send["c1"]) :
                           send["c1"][k] = createEventMessageBytes(published["t1"][i])}) = 2

====
